---------------------------- MODULE Spec2Model ----------------------------
(***************************************************************************)
(* Runbook AI agent: heuristic runbook scoring (src/src/analyzer.py),      *)
(* keyword retrieval (src/src/agent.py) and chat intent classification     *)
(* (src/src/chatbot.py).                                                   *)
(*                                                                         *)
(* Text is modelled as TLA+ strings, character by character: the regular   *)
(* expressions of the source are translated into operators that scan the   *)
(* characters the way Python's re module does.  The backquote cannot be    *)
(* written in a TLA+ string, so the character "~" stands for it            *)
(* (FENCE is the Markdown code fence marker).                              *)
(***************************************************************************)
EXTENDS Integers, Sequences, FiniteSets, TLC

VARIABLES
    message,      \* the chat message given to _detect_mode
    mode,         \* what _detect_mode returned for it ("none" before the call)
    dirExists,    \* os.path.isdir(runbook_dir)
    listing,      \* os.listdir(runbook_dir), in the order the file system gives:
                  \* a sequence of [name, kind, content]
    reads,        \* the names _read_text was called on, in call order
    analysis,     \* the outcome of the last analyze_runbook call:
                  \* [status, path, error, result, read]
    batch,        \* analyze_all_runbooks: [pc, queue, analyses]
    alert,        \* the alert text given to handle_alert
    scan,         \* _find_best_runbook: [pc, tokens, queue, best, scored, result]
    response,     \* what handle_alert returned ("" before it returns)
    summary,      \* the outcome of get_health_summary on the analyses of the batch
    document,     \* the text given to _parse_frontmatter
    parse,        \* [pc, metadata]: the metadata _parse_frontmatter found in document
    scoring,      \* [scorer, out]: what one scorer returned for the body document
    history,      \* RunbookChatbot._history: a sequence of [role, content]
    reply,        \* what the last process_message returned: [mode, response]
    uploads,      \* the uploaded_documents of the last process_message
    tmpFiles,     \* the files of uploads_tmp: a function from file name to text
    fileBytes,    \* the bytes of the file given to _read_text
    loaded        \* [caller, out]: what _read_text returned for fileBytes

\* the state of the frontmatter parser and of the conversation
parseVars == <<document, parse, scoring>>
chatVars == <<history, reply, uploads, tmpFiles>>
loadVars == <<fileBytes, loaded>>

vars == <<message, mode, dirExists, listing, reads, analysis, batch, alert, scan, response,
          summary, parseVars, chatVars, loadVars>>

----------------------------------------------------------------------------
(* Characters and strings                                                  *)

LOWERS == "abcdefghijklmnopqrstuvwxyz"
UPPERS == "ABCDEFGHIJKLMNOPQRSTUVWXYZ"
DIGITS == "0123456789"

CharsOf(s) == { SubSeq(s, i, i) : i \in 1..Len(s) }

LowerChars == CharsOf(LOWERS)
UpperChars == CharsOf(UPPERS)
DigitChars == CharsOf(DIGITS)

\* \w of Python's re on the ASCII alphabet of the model
WordChars == LowerChars \cup UpperChars \cup DigitChars \cup {"_"}

\* \s of Python's re; str.strip() strips the same characters
SpaceChars == {" ", "\t", "\n", "\r", "\f"}

\* the character of s at position i, "" outside the string
At(s, i) == IF i >= 1 /\ i <= Len(s) THEN SubSeq(s, i, i) ELSE ""

LowerOf == [ c \in UpperChars |->
               LET i == CHOOSE k \in 1..Len(UPPERS) : SubSeq(UPPERS, k, k) = c
               IN  SubSeq(LOWERS, i, i) ]

LowerChar(c) == IF c \in UpperChars THEN LowerOf[c] ELSE c

RECURSIVE lower(_)
\* str.lower(): every character lowered, the text cut in halves to keep the
\* evaluation shallow
lower(s) ==
    IF Len(s) <= 1 THEN LowerChar(s)
    ELSE LET h == Len(s) \div 2
         IN  lower(SubSeq(s, 1, h)) \o lower(SubSeq(s, h + 1, Len(s)))

\* the literal lit occurs in s starting at position i
MatchesAt(s, i, lit) ==
    /\ i >= 1
    /\ i + Len(lit) - 1 <= Len(s)
    /\ SubSeq(s, i, i + Len(lit) - 1) = lit

\* lit in s
Contains(s, lit) == \E i \in 1..(Len(s) + 1) : MatchesAt(s, i, lit)

\* \b between positions i-1 and i of s
Boundary(s, i) == (At(s, i - 1) \in WordChars) # (At(s, i) \in WordChars)

\* re.search(r"\b(w1|w2|...)\b", s) for literal alternatives
SearchWords(s, words) ==
    \E i \in 1..Len(s) :
        /\ Boundary(s, i)
        /\ \E w \in words : MatchesAt(s, i, w) /\ Boundary(s, i + Len(w))

\* the first position j >= i of s that holds no whitespace (Len(s) + 1 if none):
\* where a greedy \s* that started at i stops
SkipSpaces(s, i) ==
    CHOOSE j \in i..(Len(s) + 1) :
        /\ At(s, j) \notin SpaceChars
        /\ \A k \in i..(j - 1) : At(s, k) \in SpaceChars

\* s[i..j-1] is whitespace only
AllSpaces(s, i, j) == \A k \in i..(j - 1) : At(s, k) \in SpaceChars

\* ^ under re.MULTILINE: the start of the text or just after a newline
LineStart(s, i) == i = 1 \/ At(s, i - 1) = "\n"

SetMin(S) == CHOOSE x \in S : \A y \in S : x <= y
SetMax(S) == CHOOSE x \in S : \A y \in S : x >= y

\* str.strip(chars)
StripChars(s, chars) ==
    LET keep == { i \in 1..Len(s) : At(s, i) \notin chars }
    IN  IF keep = {} THEN "" ELSE SubSeq(s, SetMin(keep), SetMax(keep))

\* str.strip()
strip(s) == StripChars(s, SpaceChars)

RECURSIVE splitlines(_)
\* str.splitlines() of a text whose only line break is "\n" (a file opened in
\* text mode has its "\r\n" and "\r" translated to "\n")
splitlines(s) ==
    IF s = "" THEN <<>>
    ELSE LET nls == { i \in 1..Len(s) : At(s, i) = "\n" }
         IN  IF nls = {} THEN <<s>>
             ELSE LET nl == SetMin(nls)
                  IN  <<SubSeq(s, 1, nl - 1)>> \o splitlines(SubSeq(s, nl + 1, Len(s)))

RECURSIVE Join(_, _)
\* sep.join(ws)
Join(ws, sep) ==
    IF ws = <<>> THEN ""
    ELSE IF Len(ws) = 1 THEN ws[1]
    ELSE ws[1] \o sep \o Join(Tail(ws), sep)

\* A pattern is a sequence of elements <<"lit", text>>, <<"ws", least>> (\s* is
\* <<"ws", 0>>, \s+ is <<"ws", 1>>) and <<"any", set of characters>>.  In every
\* pattern of the source the element after a whitespace run starts with a
\* character that is no whitespace, so the greedy run is the only one to try.
RECURSIVE MatchSeq(_, _, _)
\* the position after the match of pat at position i of s, 0 if it does not match
MatchSeq(s, i, pat) ==
    IF pat = <<>> THEN i
    ELSE LET el == Head(pat)
             j  == IF el[1] = "lit"
                     THEN (IF MatchesAt(s, i, el[2]) THEN i + Len(el[2]) ELSE 0)
                   ELSE IF el[1] = "ws"
                     THEN (LET e == SkipSpaces(s, i) IN IF e - i >= el[2] THEN e ELSE 0)
                   ELSE (IF At(s, i) \in el[2] THEN i + 1 ELSE 0)
         IN  IF j = 0 THEN 0 ELSE MatchSeq(s, j, Tail(pat))

Lit(w) == << <<"lit", w>> >>

\* re.search(pat, s) for one of the alternatives pats, no word boundaries
SearchPlain(s, pats) ==
    \E pat \in pats : \E i \in 1..(Len(s) + 1) : MatchSeq(s, i, pat) > 0

\* re.search(r"\b(p1|p2|...)\b", s)
SearchBounded(s, pats) ==
    \E i \in 1..(Len(s) + 1) :
        /\ Boundary(s, i)
        /\ \E pat \in pats :
               LET e == MatchSeq(s, i, pat) IN e > 0 /\ Boundary(s, e)

----------------------------------------------------------------------------
(* Parsing: RunbookAnalyzer._parse_frontmatter, _parse_yaml_kv, _H2_RE     *)

REQUIRED_SECTIONS == <<"diagnosis", "remediation", "rollback">>

REQUIRED_METADATA_KEYS == <<"title", "version", "service_owner", "severity", "trigger_criteria">>

\* the empty dict
EmptyDict == <<>>

\* d[k] = v
DictSet(d, k, v) == [ x \in (DOMAIN d) \cup {k} |-> IF x = k THEN v ELSE d[x] ]

\* d.get(k): None is modelled as "", which is as false as None is
DictGet(d, k) == IF k \in DOMAIN d THEN d[k] ELSE ""

\* the first index of character c in s, 0 if there is none
IndexOf(s, c) ==
    LET at == { i \in 1..Len(s) : At(s, i) = c }
    IN  IF at = {} THEN 0 ELSE SetMin(at)

RECURSIVE ParseLines(_, _)
\* the loop of _parse_yaml_kv over the lines, meta being the dict so far
ParseLines(lines, meta) ==
    IF lines = <<>> THEN meta
    ELSE LET line  == strip(Head(lines))
             colon == IndexOf(line, ":")
         IN  IF line = "" \/ MatchesAt(line, 1, "#") \/ colon = 0
               THEN ParseLines(Tail(lines), meta)
             ELSE LET k == SubSeq(line, 1, colon - 1)
                      v == SubSeq(line, colon + 1, Len(line))
                  IN  ParseLines(Tail(lines),
                                 DictSet(meta, strip(k),
                                         StripChars(StripChars(strip(v), {"\""}), {"'"})))

_parse_yaml_kv(raw) == ParseLines(splitlines(raw), EmptyDict)

\* _YAML_FRONTMATTER_RE.match(content): ^\s*---\s*\n(.*?)\n---\s*\n under re.DOTALL.
\* The backtracking order of re is kept: the \s* after the opening --- is greedy
\* (the last newline of the whitespace run is tried first), the group is lazy
\* (the first closing line wins), the final \s* is greedy.
\* Result: [ok, raw (group 1), end (m.end(), as the position of the first
\* character after the match)].
FrontmatterMatch(content) ==
    LET a    == SkipSpaces(content, 1)
        a0   == a + 3
        w1   == SkipSpaces(content, a0)
        \* the positions the \n after the opening --- can take
        nls  == { p \in a0..(w1 - 1) : At(content, p) = "\n" }
        \* the positions e where \n---\s*\n matches
        Closes(e) == /\ MatchesAt(content, e, "\n---")
                     /\ \E q \in (e + 4)..(SkipSpaces(content, e + 4) - 1) :
                            At(content, q) = "\n"
        Ends(p) == { e \in (p + 1)..Len(content) : Closes(e) }
        good == { p \in nls : Ends(p) # {} }
    IN  IF ~MatchesAt(content, a, "---") \/ good = {}
          THEN [ok |-> FALSE, raw |-> "", end |-> 1]
        ELSE LET p == SetMax(good)
                 e == SetMin(Ends(p))
                 q == SetMax({ x \in (e + 4)..(SkipSpaces(content, e + 4) - 1) :
                                  At(content, x) = "\n" })
             IN  [ok |-> TRUE, raw |-> SubSeq(content, p + 1, e - 1), end |-> q + 1]

\* (metadata, body)
_parse_frontmatter(content) ==
    LET m == FrontmatterMatch(content)
    IN  IF ~m.ok THEN <<EmptyDict, content>>
        ELSE <<_parse_yaml_kv(m.raw), SubSeq(content, m.end, Len(content))>>

\* One match of _H2_RE, ^\s*##\s+(.+?)\s*$ under re.MULTILINE, whose ## is at
\* position a: the \s+ is greedy (b, the start of the group, as far right as a
\* match allows), the group is lazy (c, its end, as far left as allowed; "." is
\* any character but the newline), the final \s* is greedy (d, the end of the match).
H2Match(s, a) ==
    LET w  == SkipSpaces(s, a + 2)
        TailOk(c) == LET w2 == SkipSpaces(s, c)
                     IN  w2 = Len(s) + 1 \/ \E d \in c..(w2 - 1) : At(s, d) = "\n"
        \* the end of the line of position b: the group cannot go further
        Stop(b) == SetMin({ x \in b..Len(s) : At(s, x) = "\n" } \cup {Len(s) + 1})
        Caps(b) == { c \in (b + 1)..Stop(b) : TailOk(c) }
        bs == { b \in (a + 3)..w : Caps(b) # {} }
    IN  IF ~MatchesAt(s, a, "##") \/ bs = {}
          THEN [ok |-> FALSE, group |-> "", end |-> a]
        ELSE LET b  == SetMax(bs)
                 c  == SetMin(Caps(b))
                 w2 == SkipSpaces(s, c)
                 d  == IF w2 = Len(s) + 1 THEN w2
                       ELSE SetMax({ x \in c..(w2 - 1) : At(s, x) = "\n" })
             IN  [ok |-> TRUE, group |-> SubSeq(s, b, c - 1), end |-> d]

\* a match of ^\s*## can start at or after pos and reach the ## at position a
H2Reachable(s, pos, a) ==
    \E p \in pos..a : LineStart(s, p) /\ AllSpaces(s, p, a)

RECURSIVE H2FindAll(_, _)
\* _H2_RE.findall(s), scanning from position pos
H2FindAll(s, pos) ==
    LET as == { a \in pos..Len(s) :
                  MatchesAt(s, a, "##") /\ H2Reachable(s, pos, a) /\ H2Match(s, a).ok }
    IN  IF as = {} THEN <<>>
        ELSE LET m == H2Match(s, SetMin(as))
             IN  <<m.group>> \o H2FindAll(s, m.end)

\* headings = [h.strip().lower() for h in _H2_RE.findall(body)]
Headings(body) ==
    LET hs == H2FindAll(body, 1)
    IN  [ i \in 1..Len(hs) |-> lower(strip(hs[i])) ]

\* x in seq
InSeq(x, seq) == \E i \in 1..Len(seq) : seq[i] = x

----------------------------------------------------------------------------
(* Scoring: RunbookAnalyzer._score_completeness .. _score_clarity          *)
(* Scores are the floats of the source, all of them whole numbers; a       *)
(* quotient is kept exact as [num, den].  A scorer returns                 *)
(* [score, issues, recs].                                                  *)

\* the marker of a fenced code block, three backquotes in the source
FENCE == "~~~"

\* len(ln) > 140
LongLineLimit == 140

TriggerPattern == { << <<"lit", "trigger">>, <<"ws", 0>>, <<"lit", "criteria">> >> }

ValidationPattern == { Lit("validate"), Lit("verification"), Lit("verify"), Lit("confirm"),
                       Lit("check") }

OwnerPattern == { Lit("escalat"),
                  << <<"lit", "on">>, <<"any", {"-", " "}>>, <<"lit", "call">> >>,
                  Lit("owner"), Lit("contact") }

DestructivePatterns ==
    { << <<"lit", "rm">>, <<"ws", 1>>, <<"lit", "-rf">> >>,
      << <<"lit", "drop">>, <<"ws", 1>>, <<"lit", "database">> >>,
      << <<"lit", "drop">>, <<"ws", 1>>, <<"lit", "table">> >>,
      << <<"lit", "delete">>, <<"ws", 1>>, <<"lit", "from">> >>,
      << <<"lit", "kill">>, <<"ws", 1>>, <<"lit", "-9">> >>,
      Lit("shutdown"),
      Lit("reboot") }

ConfirmationPattern ==
    { Lit("confirm"), Lit("are you sure"),
      << <<"lit", "double">>, <<"any", {"-", " "}>>, <<"lit", "check">> >>,
      Lit("approval") }

SafetyWordsPattern == { Lit("safety"), Lit("warning"), Lit("caution") }

\* str.title() of the three section names
Title(name) ==
    IF name = "diagnosis" THEN "Diagnosis"
    ELSE IF name = "remediation" THEN "Remediation"
    ELSE "Rollback"

\* a check that says nothing when it is not met (mutant)
CheckSilent(met, points, issue, rec) ==
    IF met THEN [score |-> points, issues |-> <<>>, recs |-> <<>>]
    ELSE [score |-> 0, issues |-> <<>>, recs |-> <<>>]

\* one check of a scorer: the points when it is met, else its issue and its recommendation
Check(met, points, issue, rec) ==
    IF met THEN [score |-> points, issues |-> <<>>, recs |-> <<>>]
    ELSE [score |-> 0, issues |-> <<issue>>, recs |-> <<rec>>]

_score_completeness(metadata, body, headings) ==
    LET low == lower(body)
        trigger == Check(DictGet(metadata, "trigger_criteria") # ""
                             \/ SearchPlain(low, TriggerPattern),
                         25,
                         "Missing trigger criteria (when to use this runbook).",
                         "Add ~trigger_criteria~ in frontmatter and describe clear activation conditions.")
        Absent(sec) == ~InSeq(sec, headings)
        missing == SelectSeq(REQUIRED_SECTIONS, Absent)
        sections == Check(missing = <<>>,
                          25,
                          "Missing required sections: "
                              \o Join([ i \in 1..Len(missing) |-> Title(missing[i]) ], ", ")
                              \o ".",
                          "Add the missing required sections: Diagnosis, Remediation, Rollback.")
        validation == Check(SearchBounded(low, ValidationPattern),
                            25,
                            "No explicit validation/verification steps found.",
                            "Add a 'Validation' step after remediation to confirm the issue is resolved.")
        owner == Check(DictGet(metadata, "service_owner") # ""
                           \/ SearchBounded(low, OwnerPattern),
                       25,
                       "No service owner / escalation contact found.",
                       "Add ~service_owner~ in frontmatter and escalation/on-call contact info.")
    IN  [score  |-> trigger.score + sections.score + validation.score + owner.score,
         issues |-> trigger.issues \o sections.issues \o validation.issues \o owner.issues,
         recs   |-> trigger.recs \o sections.recs \o validation.recs \o owner.recs]

Min2(a, b) == IF a <= b THEN a ELSE b
Max2(a, b) == IF a >= b THEN a ELSE b

\* the structure scorer without the penalty for missing keys (mutant)
_score_structure_no_penalty(metadata, body, headings) ==
    LET Unset(k) == DictGet(metadata, k) = ""
        missing_keys == SelectSeq(REQUIRED_METADATA_KEYS, Unset)
        front == IF metadata # EmptyDict
                   THEN (IF missing_keys # <<>>
                           THEN [score  |-> 40,
                                 issues |-> << "Frontmatter is missing keys: "
                                                  \o Join(missing_keys, ", ") \o "." >>,
                                 recs   |-> << "Add missing required frontmatter keys (title, version, service_owner, severity, trigger_criteria)." >>]
                         ELSE [score |-> 40, issues |-> <<>>, recs |-> <<>>])
                 ELSE [score  |-> 0,
                       issues |-> << "Missing YAML frontmatter metadata block." >>,
                       recs   |-> << "Add a YAML frontmatter block (~--- ... ---~) with runbook metadata." >>]
        heads == Check(headings # <<>>,
                       30,
                       "No H2 sections (##) detected; runbook may be poorly structured.",
                       "Use consistent headings like '## Diagnosis', '## Remediation', and '## Rollback'.")
        version == Check(DictGet(metadata, "version") # "",
                         15,
                         "No version found in metadata.",
                         "Add a ~version~ field in frontmatter for runbook change control.")
        owner == Check(DictGet(metadata, "service_owner") # "",
                       15,
                       "No service owner found in metadata.",
                       "Add ~service_owner~ in frontmatter.")
    IN  [score  |-> Min2(100, front.score + heads.score + version.score + owner.score),
         issues |-> front.issues \o heads.issues \o version.issues \o owner.issues,
         recs   |-> front.recs \o heads.recs \o version.recs \o owner.recs]

\* _score_structure: 40 for a metadata mapping that is not empty, less 8 for each
\* required key without a value, 30 for a heading, 15 for a version, 15 for a
\* service owner
_score_structure(metadata, body, headings) ==
    LET Unset(k) == DictGet(metadata, k) = ""
        missing_keys == SelectSeq(REQUIRED_METADATA_KEYS, Unset)
        front == IF metadata # EmptyDict
                   THEN (IF missing_keys # <<>>
                           THEN [score  |-> 40 - Min2(40, 8 * Len(missing_keys)),
                                 issues |-> << "Frontmatter is missing keys: "
                                                  \o Join(missing_keys, ", ") \o "." >>,
                                 recs   |-> << "Add missing required frontmatter keys (title, version, service_owner, severity, trigger_criteria)." >>]
                         ELSE [score |-> 40, issues |-> <<>>, recs |-> <<>>])
                 ELSE [score  |-> 0,
                       issues |-> << "Missing YAML frontmatter metadata block." >>,
                       recs   |-> << "Add a YAML frontmatter block (~--- ... ---~) with runbook metadata." >>]
        heads == Check(headings # <<>>,
                       30,
                       "No H2 sections (##) detected; runbook may be poorly structured.",
                       "Use consistent headings like '## Diagnosis', '## Remediation', and '## Rollback'.")
        version == Check(DictGet(metadata, "version") # "",
                         15,
                         "No version found in metadata.",
                         "Add a ~version~ field in frontmatter for runbook change control.")
        owner == Check(DictGet(metadata, "service_owner") # "",
                       15,
                       "No service owner found in metadata.",
                       "Add ~service_owner~ in frontmatter.")
    IN  [score  |-> Min2(100, front.score + heads.score + version.score + owner.score),
         issues |-> front.issues \o heads.issues \o version.issues \o owner.issues,
         recs   |-> front.recs \o heads.recs \o version.recs \o owner.recs]

\* a deduction that takes the points twice (mutant)
DeductTwice(fault, points, issue, rec) ==
    IF fault THEN [score |-> 2 * points, issues |-> <<issue>>, recs |-> <<rec>>]
    ELSE [score |-> 0, issues |-> <<>>, recs |-> <<>>]

\* a deduction of a scorer that starts from 100: the points lost when the fault
\* is there, with its issue and its recommendation
Deduct(fault, points, issue, rec) ==
    IF fault THEN [score |-> points, issues |-> <<issue>>, recs |-> <<rec>>]
    ELSE [score |-> 0, issues |-> <<>>, recs |-> <<>>]

\* the safety scorer that deducts for a destructive action whether or not a
\* confirmation is asked for (mutant)
_score_safety_no_confirmation(body, headings) ==
    LET low == lower(body)
        destructive_found == SearchBounded(low, DestructivePatterns)
        destructive == Deduct(destructive_found,
                              35,
                              "Potentially destructive actions detected without an explicit confirmation/approval step.",
                              "Add a confirmation/approval step before any destructive command.")
        rollback == Deduct(~InSeq("rollback", headings),
                           40,
                           "No rollback section found (required for safe operations).",
                           "Add a Rollback section with clear recovery steps.")
        words == Deduct(~SearchBounded(low, SafetyWordsPattern),
                        15,
                        "No safety warnings/cautions found.",
                        "Add a short 'Safety' note (permissions, impact, maintenance window, backups).")
    IN  [score  |-> Max2(0, Min2(100, 100 - destructive.score - rollback.score - words.score)),
         issues |-> destructive.issues \o rollback.issues \o words.issues,
         recs   |-> destructive.recs \o rollback.recs \o words.recs]

\* _score_safety: 100 less 35 for a destructive action without confirmation,
\* less 40 without a rollback heading, less 15 without a safety word
_score_safety(body, headings) ==
    LET low == lower(body)
        destructive_found == SearchBounded(low, DestructivePatterns)
        destructive == Deduct(destructive_found /\ ~SearchBounded(low, ConfirmationPattern),
                              35,
                              "Potentially destructive actions detected without an explicit confirmation/approval step.",
                              "Add a confirmation/approval step before any destructive command.")
        rollback == Deduct(~InSeq("rollback", headings),
                           40,
                           "No rollback section found (required for safe operations).",
                           "Add a Rollback section with clear recovery steps.")
        words == Deduct(~SearchBounded(low, SafetyWordsPattern),
                        15,
                        "No safety warnings/cautions found.",
                        "Add a short 'Safety' note (permissions, impact, maintenance window, backups).")
    IN  [score  |-> Max2(0, Min2(100, 100 - destructive.score - rollback.score - words.score)),
         issues |-> destructive.issues \o rollback.issues \o words.issues,
         recs   |-> destructive.recs \o rollback.recs \o words.recs]

\* re.match(r"^\s*(\d+\.|\-|\*)\s+", ln)
IsStep(ln) ==
    LET a == SkipSpaces(ln, 1)
        RECURSIVE SkipDigits(_)
        SkipDigits(i) == IF At(ln, i) \in DigitChars THEN SkipDigits(i + 1) ELSE i
        d == SkipDigits(a)
        \* the position after the list marker, 0 if there is none
        m == IF d > a /\ At(ln, d) = "." THEN d + 1
             ELSE IF d = a /\ At(ln, a) \in {"-", "*"} THEN a + 1
             ELSE 0
    IN  m > 0 /\ At(ln, m) \in SpaceChars

\* the clarity scorer that runs its three checks on a blank body too (mutant)
_score_clarity_no_short_circuit(body) ==
    LET lines == splitlines(body)
        NonBlank(ln) == strip(ln) # ""
        non_empty == SelectSeq(lines, NonBlank)
        has_steps == \E i \in 1..Len(non_empty) : IsStep(non_empty[i])
        has_code_fences == Contains(body, FENCE)
        IsLong(ln) == Len(ln) > LongLineLimit
        long_lines == SelectSeq(non_empty, IsLong)
        score == (IF has_steps THEN 45 ELSE 20)
                 + (IF has_code_fences THEN 30 ELSE 15)
                 + (IF Len(long_lines) <= Max2(3, Len(non_empty) \div 10) THEN 25 ELSE 10)
        steps == Deduct(~has_steps, 0,
                        "No step-by-step list detected (harder to follow during incidents).",
                        "Use numbered steps for Diagnosis/Remediation/Rollback procedures.")
        fences == Deduct(~has_code_fences, 0,
                         "No fenced code blocks found for commands.",
                         "Wrap commands in fenced code blocks (~~~bash ... ~~~).")
        long == Deduct(long_lines # <<>>, 0,
                       "Runbook contains very long lines that may reduce readability.",
                       "Wrap long lines and keep steps concise (aim for <140 chars per line).")
    IN  IF FALSE
          THEN [score  |-> 0,
                issues |-> << "Runbook content is empty." >>,
                recs   |-> << "Add clear, step-by-step runbook content." >>]
        ELSE [score  |-> Min2(100, score),
              issues |-> steps.issues \o fences.issues \o long.issues,
              recs   |-> steps.recs \o fences.recs \o long.recs]

\* the clarity scorer with a threshold for long lines that is not inclusive (mutant)
_score_clarity_strict(body) ==
    LET lines == splitlines(body)
        NonBlank(ln) == strip(ln) # ""
        non_empty == SelectSeq(lines, NonBlank)
        has_steps == \E i \in 1..Len(non_empty) : IsStep(non_empty[i])
        has_code_fences == Contains(body, FENCE)
        IsLong(ln) == Len(ln) > LongLineLimit
        long_lines == SelectSeq(non_empty, IsLong)
        score == (IF has_steps THEN 45 ELSE 20)
                 + (IF has_code_fences THEN 30 ELSE 15)
                 + (IF Len(long_lines) < Max2(3, Len(non_empty) \div 10) THEN 25 ELSE 10)
        steps == Deduct(~has_steps, 0,
                        "No step-by-step list detected (harder to follow during incidents).",
                        "Use numbered steps for Diagnosis/Remediation/Rollback procedures.")
        fences == Deduct(~has_code_fences, 0,
                         "No fenced code blocks found for commands.",
                         "Wrap commands in fenced code blocks (~~~bash ... ~~~).")
        long == Deduct(long_lines # <<>>, 0,
                       "Runbook contains very long lines that may reduce readability.",
                       "Wrap long lines and keep steps concise (aim for <140 chars per line).")
    IN  IF non_empty = <<>>
          THEN [score  |-> 0,
                issues |-> << "Runbook content is empty." >>,
                recs   |-> << "Add clear, step-by-step runbook content." >>]
        ELSE [score  |-> Min2(100, score),
              issues |-> steps.issues \o fences.issues \o long.issues,
              recs   |-> steps.recs \o fences.recs \o long.recs]

\* _score_clarity: nothing for a blank body, else 45 or 20 for list items, 30 or
\* 15 for a code fence, 25 or 10 for the number of long lines
_score_clarity(body) ==
    LET lines == splitlines(body)
        NonBlank(ln) == strip(ln) # ""
        non_empty == SelectSeq(lines, NonBlank)
        has_steps == \E i \in 1..Len(non_empty) : IsStep(non_empty[i])
        has_code_fences == Contains(body, FENCE)
        IsLong(ln) == Len(ln) > LongLineLimit
        long_lines == SelectSeq(non_empty, IsLong)
        score == (IF has_steps THEN 45 ELSE 20)
                 + (IF has_code_fences THEN 30 ELSE 15)
                 + (IF Len(long_lines) <= Max2(3, Len(non_empty) \div 10) THEN 25 ELSE 10)
        steps == Deduct(~has_steps, 0,
                        "No step-by-step list detected (harder to follow during incidents).",
                        "Use numbered steps for Diagnosis/Remediation/Rollback procedures.")
        fences == Deduct(~has_code_fences, 0,
                         "No fenced code blocks found for commands.",
                         "Wrap commands in fenced code blocks (~~~bash ... ~~~).")
        long == Deduct(long_lines # <<>>, 0,
                       "Runbook contains very long lines that may reduce readability.",
                       "Wrap long lines and keep steps concise (aim for <140 chars per line).")
    IN  IF non_empty = <<>>
          THEN [score  |-> 0,
                issues |-> << "Runbook content is empty." >>,
                recs   |-> << "Add clear, step-by-step runbook content." >>]
        ELSE [score  |-> Min2(100, score),
              issues |-> steps.issues \o fences.issues \o long.issues,
              recs   |-> steps.recs \o fences.recs \o long.recs]

----------------------------------------------------------------------------
(* RunbookAnalyzer.analyze_runbook, once the file has been read            *)

\* the result record with the overall score taken over three of the four
\* scores and still divided by 4.0 (mutant)
ReportWrongMean(metadata, c, st, sa, cl) ==
    [overall_score      |-> [num |-> c.score + st.score + sa.score, den |-> 4],
     completeness_score |-> c.score,
     structure_score    |-> st.score,
     safety_score       |-> sa.score,
     clarity_score      |-> cl.score,
     issues             |-> c.issues \o st.issues \o sa.issues \o cl.issues,
     recommendations    |-> c.recs \o st.recs \o sa.recs \o cl.recs,
     metadata           |-> metadata]

\* the result record with the issues and the recommendations of the clarity
\* scorer put first (mutant)
ReportClarityFirst(metadata, c, st, sa, cl) ==
    [overall_score      |-> [num |-> c.score + st.score + sa.score + cl.score, den |-> 4],
     completeness_score |-> c.score,
     structure_score    |-> st.score,
     safety_score       |-> sa.score,
     clarity_score      |-> cl.score,
     issues             |-> cl.issues \o c.issues \o st.issues \o sa.issues,
     recommendations    |-> cl.recs \o c.recs \o st.recs \o sa.recs,
     metadata           |-> metadata]

\* lines 51-66 of analyze_runbook: the overall score, (sum of the four) / 4.0
\* kept as an exact fraction, the issues and recommendations of the four
\* scorers in the order completeness, structure, safety, clarity
Report(metadata, c, st, sa, cl) ==
    [overall_score      |-> [num |-> c.score + st.score + sa.score + cl.score, den |-> 4],
     completeness_score |-> c.score,
     structure_score    |-> st.score,
     safety_score       |-> sa.score,
     clarity_score      |-> cl.score,
     issues             |-> c.issues \o st.issues \o sa.issues \o cl.issues,
     recommendations    |-> c.recs \o st.recs \o sa.recs \o cl.recs,
     metadata           |-> metadata]

\* lines 44-49 of analyze_runbook: the four scorers
ScoreSections(metadata, body, headings) ==
    Report(metadata,
           _score_completeness(metadata, body, headings),
           _score_structure(metadata, body, headings),
           _score_safety(body, headings),
           _score_clarity(body))

\* line 42 of analyze_runbook: the H2 headings of the body
ScoreBody(metadata, body) == ScoreSections(metadata, body, Headings(body))

\* line 41 of analyze_runbook: metadata, body = self._parse_frontmatter(content)
ScoreParsed(parsed) == ScoreBody(parsed[1], parsed[2])

\* lines 40-66 of analyze_runbook: what is computed from the text of the file
Scored(content) == ScoreParsed(_parse_frontmatter(content))

----------------------------------------------------------------------------
(* Inputs                                                                  *)

\* words the chat messages of the model are made of
MessageWords == {"analyze", "Analyze", "analyz", "improve", "improv", "HEALTH", "score",
                 "review", "alert", "Latency", "outage", "hello", "healthy", "alerts",
                 "runbooks", "my"}

MaxWords == 2

\* the messages of demo_chatbot and of the documentation
DemoMessages == {"Hello! Can you help me?", "What can you do?", "Analyze my runbooks",
                 "I have a database latency issue", "How do I upload documents?",
                 "Please analyze this alert for latency issues",
                 "analyze my runbook", "Database latency high"}

Messages ==
    DemoMessages \cup
    { Join(ws, " ") : ws \in UNION { [1..n -> MessageWords] : n \in 0..MaxWords } }

\* Frontmatter blocks: none, complete, keys missing, no required key, required
\* keys without a value, an empty block.
Frontmatters ==
    { "",
      "---\ntitle: DB latency\nversion: 1.2\nservice_owner: dba-team\nseverity: high\ntrigger_criteria: p99 above 1s\n---\n",
      "---\ntitle: \"DB latency\"\nseverity: high\n---\n",
      "---\nauthor: bob\n---\n",
      "---\ntitle: x\nversion:\nservice_owner: ''\nseverity: low\ntrigger_criteria: t\n---\n",
      "---\n\n---\n" }

\* The parts of the complete runbook of the documentation: the three required
\* sections with a numbered list and a fenced code block, a "Safety:" warning and
\* a "Validation:" step.
CoreParts ==
    << "## Diagnosis\n1. Look at the dashboard\n",
       "## Remediation\n~~~bash\nsystemctl restart db\n~~~\n",
       "## Rollback\nRestore the snapshot\n",
       "Safety: take a backup first\n",
       "Validation: latency is back to normal\n" >>

\* a line of 142 characters
LongLine ==
    "This line is longer than one hundred and forty characters because it goes on and on about the database and its replicas without ever stopping.\n"

\* Further lines a runbook may hold.
ExtraParts ==
    << "Verify the fix and confirm it with the owner\n",
       "rm -rf /var/cache/db\n",
       "Escalate to the on-call engineer\n",
       "Trigger criteria: p99 latency above 1s\n",
       LongLine >>

MaxOmitted == 1
MaxExtras == 1

\* the subsets of S of at most n elements
SubsetsUpTo(S, n) == { T \in SUBSET S : Cardinality(T) <= n }

RECURSIVE Concat(_, _, _)
\* the parts whose index is in keep, one after the other, from index i on
Concat(parts, keep, i) ==
    IF i > Len(parts) THEN ""
    ELSE (IF i \in keep THEN parts[i] ELSE "") \o Concat(parts, keep, i + 1)

\* the complete runbook with a validation line and one line of more than 140
\* characters
LongLineRunbook ==
    "---\ntitle: DB latency\nversion: 1.2\nservice_owner: dba-team\nseverity: high\ntrigger_criteria: p99 above 1s\n---\n"
    \o Concat(CoreParts, 1..Len(CoreParts), 1) \o ExtraParts[1] \o LongLine

\* The documents of the model: the complete runbook with at most MaxOmitted of
\* its parts left out and at most MaxExtras further lines, under each
\* frontmatter; the documents without content; and the runbook with one long
\* line.
Documents ==
    { fm \o Concat(CoreParts, (1..Len(CoreParts)) \ omitted, 1) \o Concat(ExtraParts, extras, 1) :
        fm \in Frontmatters,
        omitted \in SubsetsUpTo(1..Len(CoreParts), MaxOmitted),
        extras \in SubsetsUpTo(1..Len(ExtraParts), MaxExtras) }
    \cup Frontmatters \cup {"\n  \n"}
    \cup {LongLineRunbook}

\* Scored over the documents of the model, evaluated once
ScoredDocuments == [ d \in Documents |-> Scored(d) ]

\* lines 56-66 of analyze_runbook: the RunbookAnalysis of the file, with
\* filename = os.path.basename(runbook_path)
Analysis(filename, content) == [filename |-> filename] @@ ScoredDocuments[content]

----------------------------------------------------------------------------
(* The runbook directory.  An entry is a regular file with its decoded     *)
(* text, a directory (open() raises IsADirectoryError) or a dangling       *)
(* symbolic link (listed, but os.path.exists is false and open() raises    *)
(* FileNotFoundError).                                                     *)

File(name, content) == [name |-> name, kind |-> "file", content |-> content]
Other(name, kind) == [name |-> name, kind |-> kind, content |-> ""]

\* the entry of the directory called name; NoEntry if there is none
NoEntry == [name |-> "", kind |-> "absent", content |-> ""]

Entry(name) ==
    IF dirExists /\ \E i \in 1..Len(listing) : listing[i].name = name
      THEN listing[CHOOSE i \in 1..Len(listing) : listing[i].name = name]
    ELSE NoEntry

\* os.path.exists(os.path.join(runbook_dir, name))
Exists(name) == Entry(name).kind \in {"file", "dir"}

\* what open(path, "r") raises, "none" when it opens
OpenError(name) ==
    LET kind == Entry(name).kind
    IN  IF kind = "file" THEN "none"
        ELSE IF kind = "dir" THEN "IsADirectoryError"
        ELSE "FileNotFoundError"

NoResult == [filename |-> ""]

\* no call of analyze_runbook yet
NoAnalysis == [status |-> "none", path |-> "", error |-> "none", result |-> NoResult,
               read |-> FALSE]

\* analyze_runbook without the os.path.exists test of its first lines (mutant)
AnalyzeOutcomeNoExistsTest(name) ==
    IF OpenError(name) # "none"
      THEN [status |-> "raised", path |-> name, error |-> OpenError(name),
            result |-> NoResult, read |-> TRUE]
    ELSE [status |-> "returned", path |-> name, error |-> "none",
          result |-> Analysis(name, Entry(name).content), read |-> TRUE]

\* analyze_runbook(os.path.join(runbook_dir, name)): what the call does.
\* read says whether _read_text was called.
AnalyzeOutcome(name) ==
    IF ~Exists(name)
      THEN [status |-> "raised", path |-> name, error |-> "FileNotFoundError",
            result |-> NoResult, read |-> FALSE]
    ELSE IF OpenError(name) # "none"
      THEN [status |-> "raised", path |-> name, error |-> OpenError(name),
            result |-> NoResult, read |-> TRUE]
    ELSE [status |-> "returned", path |-> name, error |-> "none",
          result |-> Analysis(name, Entry(name).content), read |-> TRUE]

----------------------------------------------------------------------------
(* Batch analysis: RunbookAnalyzer.analyze_all_runbooks                    *)

\* the characters of the file names of the model, by increasing code point
CODE_ORDER == ".0123456789ABCDEFGHIJKLMNOPQRSTUVWXYZ_abcdefghijklmnopqrstuvwxyz"

\* the rank of character c among them
Rank(c) == CHOOSE k \in 1..Len(CODE_ORDER) : SubSeq(CODE_ORDER, k, k) = c

RECURSIVE StrLess(_, _)
\* s < t for Python strings: the order of the code points
StrLess(s, t) ==
    IF t = "" THEN FALSE
    ELSE IF s = "" THEN TRUE
    ELSE IF At(s, 1) = At(t, 1) THEN StrLess(Tail(s), Tail(t))
    ELSE Rank(At(s, 1)) < Rank(At(t, 1))

\* the names in the order they were given (mutant)
AsListed(names) == names

\* sorted(names)
sorted(names) == SortSeq(names, StrLess)

\* os.listdir(runbook_dir)
listdir == [ i \in 1..Len(listing) |-> listing[i].name ]

\* name.lower().endswith(".md")
IsMarkdown(name) ==
    LET n == lower(name)
    IN  Len(n) >= 3 /\ SubSeq(n, Len(n) - 2, Len(n)) = ".md"

\* analyze_all_runbooks has not been called
NoBatch == [pc |-> "idle", queue |-> <<>>, analyses |-> <<>>]

\* the body of the loop without its try/except: what analyze_runbook raises
\* leaves analyze_all_runbooks (mutant)
BatchBodyNoExcept(b, name, out) ==
    IF ~IsMarkdown(name) THEN [b EXCEPT !.queue = Tail(@)]
    ELSE IF out.status = "returned"
      THEN [b EXCEPT !.queue = Tail(@), !.analyses = Append(@, out.result)]
    ELSE [b EXCEPT !.pc = "raised"]

\* lines 73-80 of analyze_all_runbooks, the body of the loop for the entry
\* name: out is the outcome of analyze_runbook on it
BatchBody(b, name, out) ==
    IF ~IsMarkdown(name) THEN [b EXCEPT !.queue = Tail(@)]
    ELSE IF out.status = "returned"
      THEN [b EXCEPT !.queue = Tail(@), !.analyses = Append(@, out.result)]
    ELSE [b EXCEPT !.queue = Tail(@)]

----------------------------------------------------------------------------
(* Health summary: RunbookAnalyzer.get_health_summary.  A float is kept as *)
(* the exact fraction [num, den]; a whole score v is v/1.                  *)

\* 0.0
Zero == [num |-> 0, den |-> 1]

\* the float v of a whole score
Whole(v) == [num |-> v, den |-> 1]

\* get_health_summary has not been called
NoSummary == [status |-> "none"]

RECURSIVE SumNum(_)
\* sum(values) for fractions of one denominator: the sum of the numerators
SumNum(values) ==
    IF values = <<>> THEN 0 ELSE Head(values).num + SumNum(Tail(values))

\* avg(values) of get_health_summary, for values of one denominator:
\* sum(values) / len(values)
avg(values) == [num |-> SumNum(values), den |-> values[1].den * Len(values)]

\* lines 93-102 of get_health_summary: the five averages; len(values) = 0 makes
\* the division of avg raise ZeroDivisionError
Averages(analyses) ==
    IF Len(analyses) = 0 THEN [status |-> "raised", error |-> "ZeroDivisionError"]
    ELSE [status |-> "returned",
          overall_health |->
              avg([ i \in 1..Len(analyses) |-> analyses[i].overall_score ]),
          average_completeness |->
              avg([ i \in 1..Len(analyses) |-> Whole(analyses[i].completeness_score) ]),
          average_structure |->
              avg([ i \in 1..Len(analyses) |-> Whole(analyses[i].structure_score) ]),
          average_safety |->
              avg([ i \in 1..Len(analyses) |-> Whole(analyses[i].safety_score) ]),
          average_clarity |->
              avg([ i \in 1..Len(analyses) |-> Whole(analyses[i].clarity_score) ])]

\* get_health_summary without the test of the empty list (mutant)
get_health_summary_no_guard(analyses) == Averages(analyses)

\* get_health_summary with overall_health taken from the completeness scores
\* (mutant)
get_health_summary_wrong_field(analyses) ==
    IF analyses = <<>>
      THEN [status |-> "returned", overall_health |-> Zero, average_completeness |-> Zero,
            average_structure |-> Zero, average_safety |-> Zero, average_clarity |-> Zero]
    ELSE [Averages(analyses) EXCEPT
              !.overall_health =
                  avg([ i \in 1..Len(analyses) |-> Whole(analyses[i].completeness_score) ])]

get_health_summary(analyses) ==
    IF analyses = <<>>
      THEN [status |-> "returned", overall_health |-> Zero, average_completeness |-> Zero,
            average_structure |-> Zero, average_safety |-> Zero, average_clarity |-> Zero]
    ELSE Averages(analyses)

----------------------------------------------------------------------------
(* Retrieval: RunbookAgent._tokens, _keyword_score, _find_best_runbook,    *)
(* _extract_sections, handle_alert                                         *)

\* len(t) >= 3
MinTokenLen == 3

RECURSIVE FindAllWords(_, _)
\* re.findall(r"[a-zA-Z0-9_]+", s), scanning from position pos
FindAllWords(s, pos) ==
    LET starts == { i \in pos..Len(s) : At(s, i) \in WordChars }
    IN  IF starts = {} THEN <<>>
        ELSE LET a == SetMin(starts)
                 e == CHOOSE j \in (a + 1)..(Len(s) + 1) :
                          /\ At(s, j) \notin WordChars
                          /\ \A k \in a..(j - 1) : At(s, k) \in WordChars
             IN  <<SubSeq(s, a, e - 1)>> \o FindAllWords(s, e)

\* _tokens without the filter on the length (mutant)
_tokens_keep_short(text) == FindAllWords(lower(text), 1)

_tokens(text) ==
    LET LongEnough(t) == Len(t) >= MinTokenLen
    IN  SelectSeq(FindAllWords(lower(text), 1), LongEnough)

\* _keyword_score on the content as written, not lowered (mutant)
_keyword_score_case_sensitive(alert_tokens, content) ==
    Cardinality({ i \in 1..Len(alert_tokens) :
                    alert_tokens[i] # "" /\ Contains(content, alert_tokens[i]) })

\* sum(1 for t in alert_tokens if t and t in hay)
_keyword_score(alert_tokens, content) ==
    LET hay == lower(content)
    IN  Cardinality({ i \in 1..Len(alert_tokens) :
                        alert_tokens[i] # "" /\ Contains(hay, alert_tokens[i]) })

\* None, a path that is false
None == ""

\* score > best[0] replaced by score > 0: every candidate that matches replaces
\* the best (mutant)
ImprovesOnNone(score, best) == score > 0

\* score > best[0] replaced by score >= best[0] (mutant)
ImprovesOrTies(score, best) == score >= best.score

\* line 70 of _find_best_runbook: score > best[0]
Improves(score, best) == score > best.score

\* lines 69-71 of _find_best_runbook: the candidate name has been read and
\* scored, best is replaced when the score improves on it
Scanned(sc, name, score) ==
    [sc EXCEPT !.queue  = Tail(@),
               !.scored = Append(@, [name |-> name, score |-> score]),
               !.best   = IF Improves(score, sc.best)
                            THEN [score |-> score, path |-> name]
                          ELSE @]

\* the lookahead (?=^\s*##\s+|\Z) of section() at position e of body
SectionStop(body, e) ==
    \/ e = Len(body) + 1
    \/ /\ LineStart(body, e)
       /\ MatchesAt(body, SkipSpaces(body, e), "##")
       /\ At(body, SkipSpaces(body, e) + 2) \in SpaceChars

\* One match of ^\s*##\s+name\s*$\n(.*?)(?=^\s*##\s+|\Z) under re.M | re.S whose
\* ## is at position h.  The \s* after the name is greedy and must leave a
\* newline for the \n of the pattern: that is the last newline of the
\* whitespace run.  The group is lazy: it ends at the first position where the
\* lookahead holds.
SectionAt(body, h, name) ==
    LET w   == SkipSpaces(body, h + 2)
        n   == w + Len(name)
        nls == { p \in n..(SkipSpaces(body, n) - 1) : At(body, p) = "\n" }
    IN  IF ~(MatchesAt(body, h, "##") /\ w > h + 2 /\ MatchesAt(body, w, name) /\ nls # {})
          THEN [ok |-> FALSE, group |-> ""]
        ELSE LET c == SetMax(nls) + 1
                 e == SetMin({ x \in c..(Len(body) + 1) : SectionStop(body, x) })
             IN  [ok |-> TRUE, group |-> SubSeq(body, c, e - 1)]

\* section(name) of _extract_sections: pattern.search(body), group 1 stripped
section(body, name) ==
    LET hs == { h \in 1..Len(body) :
                  /\ MatchesAt(body, h, "##")
                  /\ H2Reachable(body, 1, h)
                  /\ SectionAt(body, h, name).ok }
    IN  IF hs = {} THEN "" ELSE strip(SectionAt(body, SetMin(hs), name).group)

_extract_sections(body) ==
    << section(body, "Diagnosis"), section(body, "Remediation"), section(body, "Rollback") >>

\* lines 26-30 of handle_alert: the message when no runbook matches
Guidance ==
    "I couldn't find a matching runbook for this alert.\n\n"
    \o "Try running ~python cli.py --analyze~ to see available runbooks, "
    \o "or add a new markdown runbook under ~runbooks/~."

\* x, even when it is empty (mutant)
OrNothing(x, y) == x

\* x or y
Or(x, y) == IF x # "" THEN x ELSE y

\* lines 36-51 of handle_alert: the response for the runbook title with the
\* sections steps
Matched(title, steps) ==
    Join(<< "Matched runbook: " \o title,
            "",
            "## Diagnosis",
            Or(steps[1], "No explicit Diagnosis steps found."),
            "",
            "## Remediation",
            Or(steps[2], "No explicit Remediation steps found."),
            "",
            "## Rollback",
            Or(steps[3], "No explicit Rollback steps found."),
            "",
            "Safety note: confirm impact/approvals before any destructive action." >>,
         "\n")

\* _find_best_runbook has not been called
NoScan == [pc |-> "idle", tokens |-> <<>>, queue |-> <<>>,
           best |-> [score |-> 0, path |-> None], scored |-> <<>>, result |-> None]

----------------------------------------------------------------------------
(* Intent classification: RunbookChatbot._detect_mode                      *)

\* the alternatives of the first pattern of _detect_mode
AnalysisPattern == {"analyz", "health", "score", "review", "assess", "improv", "recommend"}

\* the alternatives of the second pattern of _detect_mode
IncidentPattern == {"incident", "alert", "error", "failure", "latency", "timeout",
                    "crash", "outage"}

_detect_mode(msg) ==
    LET m == lower(msg)
    IN  IF SearchWords(m, AnalysisPattern) THEN "analysis"
        ELSE IF SearchWords(m, IncidentPattern) THEN "incident"
        ELSE "general"

----------------------------------------------------------------------------
(* Inputs of the batch analysis and of the retrieval                       *)

\* the names of the entries of the runbook directory
Names == {"a.md", "B.MD", "c.md", "notes.txt"}

MaxEntries == 3

\* the complete runbook of the documentation
CompleteRunbook ==
    "---\ntitle: DB latency\nversion: 1.2\nservice_owner: dba-team\nseverity: high\ntrigger_criteria: p99 above 1s\n---\n"
    \o Concat(CoreParts, 1..Len(CoreParts), 1)

\* the runbooks of the batch analysis
BatchDocs == { CompleteRunbook, "---\nauthor: bob\n---\n" }

\* the runbooks of the retrieval
RetrieveDocs ==
    { "---\ntitle: DB\n---\n## Diagnosis\n1. Check database latency\n## Remediation\nRestart the replica\n",
      "## Diagnosis\nDATABASE LATENCY dashboards\n\n## Rollback\nundo the change\n",
      "Network outage notes\n",
      "Highway database latency\n## Remediation",
      "database\n## diagnosis\nlower case\n## Rollback\nundo\n### Detail\nmore\n\n  ## Remediation  \n\n",
      "network\n## diagnosis\nping it\n## REMEDIATION\nrestart\n## rollback\nundo\n" }

\* the alerts of the retrieval: the alert of the documentation, an alert
\* without a token of three characters, an alert with a token twice, an alert
\* that matches one runbook only
Alerts == { "Database Latency High", "db is up", "high high", "Network outage" }

\* the entries a directory can hold: under a name that ends in .md a regular
\* file with one of docs or an entry of one of kinds; under another name a
\* regular file that is no runbook
Entries(docs, kinds) ==
    LET md == { n \in Names : IsMarkdown(n) }
    IN  { File(n, d) : n \in md, d \in docs }
        \cup { Other(n, k) : n \in md, k \in kinds }
        \cup { File(n, "notes\n") : n \in Names \ md }

\* the directories of at most MaxEntries entries, in every order os.listdir can
\* give them
Listings(docs, kinds) ==
    UNION { { l \in [1..n -> Entries(docs, kinds)] :
                \A i, j \in 1..n : l[i].name = l[j].name => i = j } : n \in 0..MaxEntries }

----------------------------------------------------------------------------
(* The chatbot: RunbookChatbot.process_message, _analysis_response,        *)
(* _general_response, reset_conversation                                   *)

RECURSIVE BatchRun(_)
\* the loop of analyze_all_runbooks run to its end: the analyses it returns
BatchRun(b) ==
    IF b.queue = <<>> THEN b.analyses
    ELSE BatchRun(BatchBody(b, Head(b.queue),
                            IF IsMarkdown(Head(b.queue)) THEN AnalyzeOutcome(Head(b.queue))
                            ELSE NoAnalysis))

\* analyze_all_runbooks(self.runbook_dir)
analyze_all_runbooks ==
    IF ~dirExists THEN <<>>
    ELSE BatchRun([NoBatch EXCEPT !.pc = "loop", !.queue = sorted(listdir)])

RECURSIVE FindRun(_)
\* the loop of _find_best_runbook run to its end over a directory of regular
\* files: best[1]
FindRun(sc) ==
    IF sc.queue = <<>> THEN sc.best.path
    ELSE IF ~IsMarkdown(Head(sc.queue)) THEN FindRun([sc EXCEPT !.queue = Tail(@)])
    ELSE FindRun(Scanned(sc, Head(sc.queue),
                         _keyword_score(sc.tokens, Entry(Head(sc.queue)).content)))

\* _find_best_runbook(alert_text)
_find_best_runbook(alert_text) ==
    IF ~dirExists THEN None
    ELSE FindRun([NoScan EXCEPT !.pc = "loop", !.tokens = _tokens(alert_text),
                                !.queue = listdir])

\* lines 25-51 of handle_alert, runbook_path being what _find_best_runbook returned
AlertResponse(runbook_path) ==
    IF runbook_path = None THEN Guidance
    ELSE Matched(runbook_path,
                 _extract_sections(_parse_frontmatter(Entry(runbook_path).content)[2]))

\* self.agent.handle_alert(alert_text)
handle_alert(alert_text) == AlertResponse(_find_best_runbook(alert_text))

\* the rounding of format(x, ".1f"): the number of tenths nearest to the float
\* num/den, a tie going to the even number.  The quotients of the model have
\* no factor 5 in den, so a tie is a float that is exact (x.25, x.75).
Tenths(num, den) ==
    IF 2 * ((10 * num) % den) > den THEN ((10 * num) \div den) + 1
    ELSE IF 2 * ((10 * num) % den) < den THEN (10 * num) \div den
    ELSE IF ((10 * num) \div den) % 2 = 0 THEN (10 * num) \div den
    ELSE ((10 * num) \div den) + 1

\* the digits of t tenths
Digits(t) == ToString(t \div 10) \o "." \o ToString(t % 10)

\* f"{x:.1f}"
Format1(x) == Digits(Tenths(x.num, x.den))

\* items[:3], each as a list line
FirstThree(items) == [ i \in 1..Min2(3, Len(items)) |-> "- " \o items[i] ]

\* lines 87-99 of _analysis_response: the lines about analyses[0]
TopLines(top) ==
    << "Example: ~" \o top.filename \o "~ scored " \o Format1(top.overall_score) \o "%." >>
    \o (IF top.issues # <<>> THEN << "Top issues:" >> \o FirstThree(top.issues) ELSE <<>>)
    \o (IF top.recommendations # <<>>
          THEN << "Top recommendations:" >> \o FirstThree(top.recommendations)
        ELSE <<>>)

\* lines 78-85 of _analysis_response: the lines of the health summary
SummaryLines(s) ==
    << "Runbook health analysis:",
       "- Overall health: " \o Format1(s.overall_health) \o "%",
       "- Completeness: " \o Format1(s.average_completeness) \o "%",
       "- Structure: " \o Format1(s.average_structure) \o "%",
       "- Safety: " \o Format1(s.average_safety) \o "%",
       "- Clarity: " \o Format1(s.average_clarity) \o "%",
       "" >>

\* lines 76-102 of _analysis_response: the text for the analyses
AnalysisText(analyses) ==
    Join(SummaryLines(get_health_summary(analyses))
             \o (IF analyses # <<>> THEN TopLines(analyses[1]) ELSE <<>>),
         "\n")

\* the uploaded documents _analysis_response analyses: those with text
WithText(uploaded_documents) ==
    SelectSeq(uploaded_documents, LAMBDA doc : strip(doc.content) # "")

\* lines 60-71 of _analysis_response: each uploaded document with text is
\* written to uploads_tmp/<name>.md and analysed from there
UploadAnalyses(docs) ==
    [ i \in 1..Len(docs) |-> Analysis(docs[i].name \o ".md", docs[i].content) ]

\* lines 73-76 of _analysis_response: without an analysis of an uploaded
\* document, the runbooks of the directory are analysed
OrBuiltIns(analyses) == IF analyses = <<>> THEN analyze_all_runbooks ELSE analyses

\* _analysis_response(message, uploaded_documents): the text
_analysis_response(msg, uploaded_documents) ==
    AnalysisText(OrBuiltIns(UploadAnalyses(WithText(uploaded_documents))))

RECURSIVE Written(_, _)
\* uploads_tmp after the documents docs have been written to files
Written(files, docs) ==
    IF docs = <<>> THEN files
    ELSE Written(DictSet(files, Head(docs).name \o ".md", Head(docs).content), Tail(docs))

_general_response ==
    "I can help with:\n"
    \o "- Runbook analysis (ask: 'analyze my runbook' or click Analyze All Runbooks)\n"
    \o "- Incident response (describe an alert, e.g. 'Database latency high')\n"
    \o "- General guidance on using the tool\n\n"
    \o "Try: ~python cli.py --analyze~ or launch the UI: ~python cli.py --web~."

\* line 69 of _analysis_response: open(tmp_path, "w") creates the file in
\* uploads_tmp; it cannot when the name of the document leads into a
\* directory that is not there
Writable(doc) == ~Contains(doc.name, "/")

RECURSIVE WritableBefore(_)
\* the documents of docs that are written before one cannot be
WritableBefore(docs) ==
    IF docs = <<>> \/ ~Writable(Head(docs)) THEN <<>>
    ELSE <<Head(docs)>> \o WritableBefore(Tail(docs))

\* What leaves the handler of mode m, "none" when it returns.  Nothing is
\* caught in process_message, _analysis_response or handle_alert: the open()
\* of an uploaded document that cannot be written and the open() of a .md
\* entry of the directory that is no regular file raise through them.
Raised(m, msg, uploaded_documents) ==
    IF m = "analysis"
    THEN IF \E i \in 1..Len(WithText(uploaded_documents)) :
                ~Writable(WithText(uploaded_documents)[i])
         THEN "FileNotFoundError" ELSE "none"
    ELSE IF m = "incident"
    THEN LET bad == { i \in 1..Len(listdir) :
                        IsMarkdown(listdir[i]) /\ OpenError(listdir[i]) # "none" }
         IN  IF dirExists /\ bad # {} THEN OpenError(listdir[SetMin(bad)]) ELSE "none"
    ELSE "none"

\* lines 36-48 of process_message: what the handler of the mode raises, or
\* the response it returns
Reply(m, msg, uploaded_documents) ==
    LET error == Raised(m, msg, uploaded_documents)
    IN  [mode     |-> m,
         error    |-> error,
         response |-> IF error # "none" THEN ""
                      ELSE IF m = "analysis" THEN _analysis_response(msg, uploaded_documents)
                      ELSE IF m = "incident" THEN handle_alert(msg)
                      ELSE _general_response]

\* lines 34-48 of process_message: what a call appends to _history.  The
\* message of the user is appended before the handler of the mode runs, the
\* response after it has returned.
Turn(msg, r) ==
    IF r.error # "none" THEN << [role |-> "user", content |-> msg] >>
    ELSE << [role |-> "user", content |-> msg], [role |-> "assistant", content |-> r.response] >>

\* the mode of the last message of the user in the history, "general" if there is none
LastMode(hist) ==
    IF hist = <<>> THEN "general" ELSE _detect_mode(hist[Len(hist) - 1].content)

\* process_message that takes the mode of the conversation so far for a
\* message that names no mode itself (mutant)
process_message_follow_up(hist, msg, uploaded_documents) ==
    Reply(IF _detect_mode(msg) = "general" THEN LastMode(hist) ELSE _detect_mode(msg),
          msg, uploaded_documents)

\* what process_message(message, uploaded_documents) returns in a chatbot
\* whose _history is hist
process_message(hist, msg, uploaded_documents) ==
    Reply(_detect_mode(msg), msg, uploaded_documents)

\* ---- inputs of the chatbot ----

\* messages of the three modes; "analyze my runbook" is the one of the
\* documentation
ChatMessages == {"review my runbook", "Database latency high", "hello", "analyze my runbook"}

\* uploaded documents: two runbooks, a document without text and a document
\* whose name leads into a directory that uploads_tmp does not hold
UploadDocs ==
    { [name |-> "up", content |-> CompleteRunbook],
      [name |-> "draft", content |-> "---\nauthor: bob\n---\n"],
      [name |-> "blank", content |-> " \n"],
      [name |-> "no/dir", content |-> "# x\n"] }

MaxUploads == 1
MaxTurns == 2
MaxChatEntries == 1

\* the uploaded_documents of a call
Uploads == UNION { [1..n -> UploadDocs] : n \in 0..MaxUploads }

\* the runbook directories of the chatbot
ChatListings == { l \in Listings(BatchDocs, {"dir"}) : Len(l) <= MaxChatEntries }

----------------------------------------------------------------------------
(* Actions                                                                 *)

\* _parse_frontmatter has not been called
NoParse == [pc |-> "idle", metadata |-> EmptyDict]

\* no scorer has been called
NoScore == [scorer |-> "none", out |-> [score |-> 0, issues |-> <<>>, recs |-> <<>>]]

\* process_message has not been called
NoReply == [mode |-> "none", error |-> "none", response |-> ""]

\* ---------------------------------------------------------------------
\* Reading a file as text: the codecs of _read_text.  The content of a file
\* is a sequence of bytes (0..255), a text is a sequence of code points.

\* U+FFFD, what errors="replace" puts for bytes that do not decode
REPLACEMENT == 65533

\* the byte order mark U+FEFF in UTF-8: EF BB BF
BOM_UTF8 == <<239, 187, 191>>

\* the number of bytes of the UTF-8 sequence that starts with byte b, 0 when
\* b starts none (a continuation byte, C0, C1, F5..FF)
Utf8Length(b) ==
    IF b < 128 THEN 1
    ELSE IF b >= 194 /\ b <= 223 THEN 2
    ELSE IF b >= 224 /\ b <= 239 THEN 3
    ELSE IF b >= 240 /\ b <= 244 THEN 4
    ELSE 0

\* the second byte a sequence that starts with byte b may have: no overlong
\* form (E0, F0), no surrogate (ED), nothing above U+10FFFF (F4)
IsSecond(b, c) ==
    /\ c >= (IF b = 224 THEN 160 ELSE IF b = 240 THEN 144 ELSE 128)
    /\ c <= (IF b = 237 THEN 159 ELSE IF b = 244 THEN 143 ELSE 191)

IsContinuation(c) == c >= 128 /\ c <= 191

RECURSIVE Utf8Prefix(_, _, _, _)
\* the number of bytes from position i on that are the beginning of one
\* UTF-8 sequence of n bytes, k of them counted already
Utf8Prefix(bytes, i, n, k) ==
    IF k = n \/ i + k > Len(bytes) THEN k
    ELSE IF k = 1 /\ ~IsSecond(bytes[i], bytes[i + 1]) THEN k
    ELSE IF k > 1 /\ ~IsContinuation(bytes[i + k]) THEN k
    ELSE Utf8Prefix(bytes, i, n, k + 1)

\* the code point of the complete UTF-8 sequence of n bytes at position i
Utf8CodePoint(bytes, i, n) ==
    IF n = 1 THEN bytes[i]
    ELSE IF n = 2 THEN (bytes[i] - 192) * 64 + (bytes[i + 1] - 128)
    ELSE IF n = 3 THEN (bytes[i] - 224) * 4096 + (bytes[i + 1] - 128) * 64 + (bytes[i + 2] - 128)
    ELSE (bytes[i] - 240) * 262144 + (bytes[i + 1] - 128) * 4096
         + (bytes[i + 2] - 128) * 64 + (bytes[i + 3] - 128)

RECURSIVE Utf8From(_, _, _)
\* the utf-8 codec from position i on: [ok, text]; with replace, each
\* ill-formed run of bytes becomes U+FFFD, without it the decoding fails
\* (UnicodeDecodeError)
Utf8From(bytes, i, replace) ==
    IF i > Len(bytes) THEN [ok |-> TRUE, text |-> <<>>]
    ELSE LET n == Utf8Length(bytes[i])
             k == IF n = 0 THEN 0 ELSE Utf8Prefix(bytes, i, n, 1)
         IN  IF n > 0 /\ k = n
             THEN LET rest == Utf8From(bytes, i + n, replace)
                  IN  [ok |-> rest.ok, text |-> <<Utf8CodePoint(bytes, i, n)>> \o rest.text]
             ELSE IF replace
             THEN LET rest == Utf8From(bytes, i + Max2(1, k), replace)
                  IN  [ok |-> rest.ok, text |-> <<REPLACEMENT>> \o rest.text]
             ELSE [ok |-> FALSE, text |-> <<>>]

\* cp1252 for the bytes 80..9F; 0 where the codec of Python has no character
\* (81, 8D, 8F, 90, 9D)
Cp1252High ==
    << 8364, 0, 8218, 402, 8222, 8230, 8224, 8225, 710, 8240, 352, 8249, 338, 0, 381, 0,
       0, 8216, 8217, 8220, 8221, 8226, 8211, 8212, 732, 8482, 353, 8250, 339, 0, 382, 376 >>

\* the character of one byte in cp1252, 0 where there is none
Cp1252Char(b) == IF b >= 128 /\ b <= 159 THEN Cp1252High[b - 127] ELSE b

\* The codec of an encoding name applied to the whole content: [ok, text].
\* utf-8-sig leaves out a byte order mark at the beginning; of a content that
\* is only the beginning of a byte order mark (EF, EF BB) it makes the empty
\* text, without error.
Decode(enc, bytes) ==
    IF enc = "utf-8" THEN Utf8From(bytes, 1, FALSE)
    ELSE IF enc = "utf-8-sig"
    THEN IF Len(bytes) < 3 /\ bytes = SubSeq(BOM_UTF8, 1, Len(bytes))
         THEN [ok |-> TRUE, text |-> <<>>]
         ELSE IF Len(bytes) >= 3 /\ SubSeq(bytes, 1, 3) = BOM_UTF8
         THEN Utf8From(bytes, 4, FALSE)
         ELSE Utf8From(bytes, 1, FALSE)
    ELSE IF enc = "cp1252"
    THEN IF \E i \in 1..Len(bytes) : bytes[i] # 0 /\ Cp1252Char(bytes[i]) = 0
         THEN [ok |-> FALSE, text |-> <<>>]
         ELSE [ok |-> TRUE, text |-> [i \in 1..Len(bytes) |-> Cp1252Char(bytes[i])]]
    ELSE Utf8From(bytes, 1, TRUE)

RECURSIVE UniversalNewlines(_)
\* open(path, "r") reads in text mode: "\r\n" and "\r" become "\n"
UniversalNewlines(text) ==
    IF text = <<>> THEN <<>>
    ELSE IF Head(text) = 13
    THEN <<10>> \o UniversalNewlines(IF Len(text) > 1 /\ text[2] = 10 THEN Tail(Tail(text))
                                     ELSE Tail(text))
    ELSE <<Head(text)>> \o UniversalNewlines(Tail(text))

\* the encodings _read_text tries, in order
Encodings == <<"utf-8", "utf-8-sig", "cp1252">>

RECURSIVE ReadTextFrom(_, _, _)
\* the loop of _read_text from the i-th encoding on, then the read with
\* errors="replace": [status, encoding, text, tried]
ReadTextFrom(bytes, encodings, i) ==
    IF i > Len(encodings)
    THEN LET lossy == Decode("replace", bytes)
         IN  IF lossy.ok
             THEN [status |-> "returned", encoding |-> "replace",
                   text |-> UniversalNewlines(lossy.text), tried |-> i - 1]
             ELSE [status |-> "UnicodeDecodeError", encoding |-> "replace",
                   text |-> <<>>, tried |-> i - 1]
    ELSE LET decoded == Decode(encodings[i], bytes)
         IN  IF decoded.ok
             THEN [status |-> "returned", encoding |-> encodings[i],
                   text |-> UniversalNewlines(decoded.text), tried |-> i - 1]
             ELSE ReadTextFrom(bytes, encodings, i + 1)

\* _read_text without the read with errors="replace" (mutant)
_read_text_no_fallback(bytes) ==
    LET r == ReadTextFrom(bytes, Encodings, 1)
    IN  IF r.encoding = "replace"
        THEN [status |-> "UnicodeDecodeError", encoding |-> "replace", text |-> <<>>, tried |-> 3]
        ELSE r

\* _read_text(path) for a file whose content is bytes
_read_text(bytes) == ReadTextFrom(bytes, Encodings, 1)

\* The bytes of the contents of the model: A, CR, LF, the two bytes of "e
\* acute" in UTF-8 (C3 A9), the three bytes of the byte order mark (EF BB BF),
\* and 81, which cp1252 does not define.
ContentBytes == {65, 13, 10, 195, 169, 239, 187, 191, 129}

MaxBytes == 3

\* the file contents of the model
Contents == UNION { [1..n -> ContentBytes] : n \in 0..MaxBytes }

\* _read_text not called yet
NoLoad == [caller |-> "none", out |-> [status |-> "none", encoding |-> "", text |-> <<>>, tried |-> 0]]

\* no call made yet
Idle ==
    /\ mode = "none"
    /\ reads = <<>>
    /\ analysis = NoAnalysis
    /\ batch = NoBatch
    /\ scan = NoScan
    /\ response = ""
    /\ summary = NoSummary
    /\ parse = NoParse
    /\ scoring = NoScore
    /\ history = <<>>
    /\ reply = NoReply
    /\ uploads = <<>>
    /\ tmpFiles = EmptyDict
    /\ loaded = NoLoad

NoDirectory ==
    /\ dirExists = FALSE
    /\ listing = <<>>

\* _detect_mode(message)
DetectMode ==
    /\ mode = "none"
    /\ mode' = _detect_mode(message)
    /\ UNCHANGED <<message, dirExists, listing, reads, analysis, batch, alert, scan, response, summary, parseVars, chatVars, loadVars>>

\* the next message of the conversation
NextMessage ==
    /\ mode # "none"
    /\ message' \in DemoMessages
    /\ mode' = "none"
    /\ UNCHANGED <<dirExists, listing, reads, analysis, batch, alert, scan, response, summary, parseVars, chatVars, loadVars>>

\* the names analyze_runbook is called with: the entries of the directory and
\* a name that is not in it
AnalysisPaths == { listing[i].name : i \in 1..Len(listing) } \cup {"missing.md"}

\* analyze_runbook(path), one call in a behaviour
AnalyzeRunbook(name) ==
    /\ analysis.status = "none"
    /\ analysis' = AnalyzeOutcome(name)
    /\ reads' = IF analysis'.read THEN Append(reads, name) ELSE reads
    /\ UNCHANGED <<message, mode, dirExists, listing, batch, alert, scan, response, summary, parseVars, chatVars, loadVars>>

\* analyze_all_runbooks, lines 69-72: the test of the directory and the
\* sorted listing
BatchStart ==
    /\ batch.pc = "idle"
    /\ batch' = IF ~dirExists
                  THEN [batch EXCEPT !.pc = "returned"]
                ELSE [batch EXCEPT !.pc = "loop", !.queue = sorted(listdir)]
    /\ UNCHANGED <<message, mode, dirExists, listing, reads, analysis, alert, scan, response, summary, parseVars, chatVars, loadVars>>

\* analyze_all_runbooks, lines 72-80: one turn of the loop
BatchStep ==
    /\ batch.pc = "loop"
    /\ batch.queue # <<>>
    /\ analysis' = IF IsMarkdown(Head(batch.queue))
                     THEN AnalyzeOutcome(Head(batch.queue))
                   ELSE analysis
    /\ batch' = BatchBody(batch, Head(batch.queue), analysis')
    /\ reads' = IF IsMarkdown(Head(batch.queue)) /\ analysis'.read
                  THEN Append(reads, Head(batch.queue))
                ELSE reads
    /\ UNCHANGED <<message, mode, dirExists, listing, alert, scan, response, summary, parseVars, chatVars, loadVars>>

\* analyze_all_runbooks, line 81: return analyses
BatchReturn ==
    /\ batch.pc = "loop"
    /\ batch.queue = <<>>
    /\ batch' = [batch EXCEPT !.pc = "returned"]
    /\ UNCHANGED <<message, mode, dirExists, listing, reads, analysis, alert, scan, response, summary, parseVars, chatVars, loadVars>>

\* get_health_summary(analyses) on what analyze_all_runbooks returned
Summarize ==
    /\ batch.pc = "returned"
    /\ summary.status = "none"
    /\ summary' = get_health_summary(batch.analyses)
    /\ UNCHANGED <<message, mode, dirExists, listing, reads, analysis, batch, alert, scan,
                   response, parseVars, chatVars, loadVars>>

\* _find_best_runbook, lines 58-64: the test of the directory, the tokens of
\* the alert, the listing in the order of os.listdir
FindStart ==
    /\ scan.pc = "idle"
    /\ scan' = IF ~dirExists
                 THEN [scan EXCEPT !.pc = "found", !.result = None]
               ELSE [scan EXCEPT !.pc = "loop", !.tokens = _tokens(alert),
                                 !.best = [score |-> 0, path |-> None],
                                 !.queue = listdir]
    /\ UNCHANGED <<message, mode, dirExists, listing, reads, analysis, batch, alert, response, summary, parseVars, chatVars, loadVars>>

\* _find_best_runbook, lines 64-71: one turn of the loop.  What open() raises
\* is not caught: it leaves _find_best_runbook and handle_alert.
FindStep ==
    /\ scan.pc = "loop"
    /\ scan.queue # <<>>
    /\ LET name == Head(scan.queue)
       IN  IF ~IsMarkdown(name)
             THEN /\ scan' = [scan EXCEPT !.queue = Tail(@)]
                  /\ reads' = reads
           ELSE IF OpenError(name) # "none"
             THEN /\ scan' = [scan EXCEPT !.pc = "raised"]
                  /\ reads' = Append(reads, name)
           ELSE /\ scan' = Scanned(scan, name, _keyword_score(scan.tokens, Entry(name).content))
                /\ reads' = Append(reads, name)
    /\ UNCHANGED <<message, mode, dirExists, listing, analysis, batch, alert, response, summary, parseVars, chatVars, loadVars>>

\* _find_best_runbook, line 73: return best[1]
FindReturn ==
    /\ scan.pc = "loop"
    /\ scan.queue = <<>>
    /\ scan' = [scan EXCEPT !.pc = "found", !.result = scan.best.path]
    /\ UNCHANGED <<message, mode, dirExists, listing, reads, analysis, batch, alert, response, summary, parseVars, chatVars, loadVars>>

\* handle_alert, lines 25-51: the guidance when no runbook was found, else the
\* sections of the runbook, read once more
Respond ==
    /\ scan.pc = "found"
    /\ scan' = [scan EXCEPT !.pc = "responded"]
    /\ response' = IF scan.result = None THEN Guidance
                   ELSE Matched(scan.result,
                                _extract_sections(
                                    _parse_frontmatter(Entry(scan.result).content)[2]))
    /\ reads' = IF scan.result = None THEN reads ELSE Append(reads, scan.result)
    /\ UNCHANGED <<message, mode, dirExists, listing, analysis, batch, alert, summary, parseVars, chatVars, loadVars>>

\* process_message(msg, uploaded_documents): the user's message and, when
\* the handler of the mode returns, the response are appended to the history;
\* the uploaded documents with text are written to uploads_tmp, up to the
\* first that cannot be
ProcessMessage ==
    /\ Len(SelectSeq(history, LAMBDA entry : entry.role = "user")) < MaxTurns
    /\ \E msg \in ChatMessages, uploaded_documents \in Uploads :
           /\ message' = msg
           /\ uploads' = uploaded_documents
           /\ reply' = process_message(history, msg, uploaded_documents)
           /\ history' = history \o Turn(msg, reply')
           /\ tmpFiles' = IF reply'.mode = "analysis"
                            THEN Written(tmpFiles, WritableBefore(WithText(uploaded_documents)))
                          ELSE tmpFiles
    /\ UNCHANGED <<mode, dirExists, listing, reads, analysis, batch, alert, scan, response,
                   summary, parseVars, loadVars>>

\* reset_conversation()
ResetConversation ==
    /\ history # <<>>
    /\ history' = <<>>
    /\ UNCHANGED <<message, mode, dirExists, listing, reads, analysis, batch, alert, scan,
                   response, summary, parseVars, reply, uploads, tmpFiles, loadVars>>

----------------------------------------------------------------------------
(* Specifications                                                          *)

\* ---- frontmatter inputs ----

\* the keys and the values the lines of a frontmatter block are written with:
\* bare, quoted once, quoted twice with the same or with the other quote, with a
\* quote at one end or inside only, padded inside the quotes, empty, with a colon
FrontmatterKeys == {"title", "version"}
FrontmatterValues ==
    {"DB", "\"DB\"", "'DB'", "\"\"DB\"\"", "'\"DB\"'", "\"'DB'\"", "\"DB", "D\"B",
     "\" DB \"", "", "a: b"}

MaxLines == 2

FrontmatterLines == { k \o ": " \o v : k \in FrontmatterKeys, v \in FrontmatterValues }

RECURSIVE LinesUpTo(_)
\* the sequences of at most n frontmatter lines
LinesUpTo(n) ==
    IF n = 0 THEN { <<>> }
    ELSE LET shorter == LinesUpTo(n - 1)
         IN  shorter \cup { Append(ls, l) : ls \in shorter, l \in FrontmatterLines }

\* a document with the lines as its frontmatter block
WithFrontmatter(lines) == "---\n" \o Join(lines, "\n") \o "\n---\n# Runbook\n"

\* metadata, body = self._parse_frontmatter(content)
ParseFrontmatter ==
    /\ parse.pc = "idle"
    /\ parse' = [pc |-> "parsed", metadata |-> _parse_frontmatter(document)[1]]
    /\ UNCHANGED <<message, mode, dirExists, listing, reads, analysis, batch, alert, scan,
                   response, summary, document, scoring, chatVars, loadVars>>

\* ---- specifications ----

\* parsing the frontmatter of one document
ParseInit ==
    /\ document \in { WithFrontmatter(lines) : lines \in LinesUpTo(MaxLines) }
    /\ message = ""
    /\ alert = ""
    /\ NoDirectory
    /\ fileBytes = <<>>
    /\ Idle

ParseNext == ParseFrontmatter

SpecParse == ParseInit /\ [][ParseNext]_vars

\* ---- bodies for the safety and the clarity scorers ----

\* lines with a destructive command (and two that only look like one), lines
\* with a confirmation or approval phrase (and one that only looks like one),
\* rollback headings (and one that is another heading), lines with a safety
\* word (and one that only looks like one); "" is the line left out
DestructiveLines == {"", "rm -rf /var/cache\n", "DROP  TABLE users;\n", "Reboot the host\n",
                     "kill -9 1234\n", "shutdowns are fine\n", "rm -rfv /tmp/x\n"}
ConfirmationLines == {"", "Get approval first\n", "Double-check the host\n",
                      "confirmation is needed\n"}
RollbackLines == {"", "## Rollback\nundo\n", "## ROLLBACK \nundo\n", "## Rollback plan\nundo\n"}
SafetyLines == {"", "Caution: slow\n", "WARNING\n", "warnings ahead\n"}

SafetyBodies ==
    { d \o c \o r \o w : d \in DestructiveLines, c \in ConfirmationLines,
                         r \in RollbackLines, w \in SafetyLines }

\* a line of exactly 140 characters and its line break
Line140 == SubSeq(LongLine, 1, 140) \o "\n"

\* first lines: list items of each kind, lines that only look like one, none
StepLines == {"", "1. restart\n", "  12. restart\n", "- restart\n", "* restart\n",
              "1.restart\n", "-restart\n"}
FenceLines == {"", "~~~\n"}

\* the numbers of long lines and of short further lines of a body
MaxLongLines == 5
FillerCounts == {0, 36}

RECURSIVE Repeat(_, _)
\* n times the text
Repeat(text, n) == IF n = 0 THEN "" ELSE text \o Repeat(text, n - 1)

ClarityBodies ==
    { st \o f \o Repeat(LongLine, k) \o x \o Repeat("check\n\n", n) :
        st \in StepLines, f \in FenceLines, k \in 0..MaxLongLines, x \in {"", Line140},
        n \in FillerCounts }
    \cup {"", "\n", " \n\t\n"}

\* safety, safety_issues, safety_recs = self._score_safety(body, headings)
ScoreSafety ==
    /\ scoring.scorer = "none"
    /\ scoring' = [scorer |-> "safety", out |-> _score_safety(document, Headings(document))]
    /\ UNCHANGED <<message, mode, dirExists, listing, reads, analysis, batch, alert, scan,
                   response, summary, document, parse, chatVars, loadVars>>

\* clarity, clarity_issues, clarity_recs = self._score_clarity(body)
ScoreClarity ==
    /\ scoring.scorer = "none"
    /\ scoring' = [scorer |-> "clarity", out |-> _score_clarity(document)]
    /\ UNCHANGED <<message, mode, dirExists, listing, reads, analysis, batch, alert, scan,
                   response, summary, document, parse, chatVars, loadVars>>

\* one scorer applied to one body
ScoreInit ==
    /\ document \in SafetyBodies \cup ClarityBodies
    /\ message = ""
    /\ alert = ""
    /\ NoDirectory
    /\ fileBytes = <<>>
    /\ Idle

ScoreNext == ScoreSafety \/ ScoreClarity

SpecScore == ScoreInit /\ [][ScoreNext]_vars

\* ---- reading a file as text ----

\* RunbookAnalyzer._read_text(path)
ReadText ==
    /\ loaded.caller = "none"
    /\ loaded' = [caller |-> "analyzer", out |-> _read_text(fileBytes)]
    /\ UNCHANGED <<message, mode, dirExists, listing, reads, analysis, batch, alert, scan,
                   response, summary, parseVars, chatVars, fileBytes>>

\* RunbookAgent._read_text(path), the same code
AgentReadText ==
    /\ loaded.caller = "none"
    /\ loaded' = [caller |-> "agent", out |-> _read_text(fileBytes)]
    /\ UNCHANGED <<message, mode, dirExists, listing, reads, analysis, batch, alert, scan,
                   response, summary, parseVars, chatVars, fileBytes>>

\* reading one existing file, of every content of the model
LoadInit ==
    /\ fileBytes \in Contents
    /\ document = ""
    /\ message = ""
    /\ alert = ""
    /\ NoDirectory
    /\ Idle

LoadNext == ReadText \/ AgentReadText

SpecLoad == LoadInit /\ [][LoadNext]_vars

ClassifyInit ==
    /\ document = ""
    /\ message \in Messages
    /\ alert = ""
    /\ NoDirectory
    /\ fileBytes = <<>>
    /\ Idle

ClassifyNext == DetectMode \/ NextMessage

\* the classifier on the messages of the model
SpecClassify == ClassifyInit /\ [][ClassifyNext]_vars

AnalyzeInit ==
    /\ document = ""
    /\ message = ""
    /\ alert = ""
    /\ dirExists = TRUE
    /\ \/ \E doc \in Documents : listing = << File("runbook.md", doc) >>
       \/ \E kind \in {"dir", "dangling"} : listing = << Other("runbook.md", kind) >>
    /\ fileBytes = <<>>
    /\ Idle

AnalyzeNext == \E name \in AnalysisPaths : AnalyzeRunbook(name)

\* analyze_runbook on one path of a directory
SpecAnalyze == AnalyzeInit /\ [][AnalyzeNext]_vars

BatchInit ==
    /\ document = ""
    /\ message = ""
    /\ alert = ""
    /\ \/ NoDirectory
       \/ dirExists = TRUE /\ listing \in Listings(BatchDocs, {"dir", "dangling"})
    /\ fileBytes = <<>>
    /\ Idle

BatchNext == BatchStart \/ BatchStep \/ BatchReturn \/ Summarize

\* analyze_all_runbooks on a directory, then get_health_summary on its result
SpecBatch == BatchInit /\ [][BatchNext]_vars

RetrieveInit ==
    /\ document = ""
    /\ message = ""
    /\ alert \in Alerts
    /\ \/ NoDirectory
       \/ dirExists = TRUE /\ listing \in Listings(RetrieveDocs, {"dir"})
    /\ fileBytes = <<>>
    /\ Idle

RetrieveNext == FindStart \/ FindStep \/ FindReturn \/ Respond

\* handle_alert on an alert and a directory
SpecRetrieve == RetrieveInit /\ [][RetrieveNext]_vars

\* a conversation with the chatbot
ChatInit ==
    /\ document = ""
    /\ message = ""
    /\ alert = ""
    /\ \/ NoDirectory
       \/ dirExists = TRUE /\ listing \in ChatListings
    /\ fileBytes = <<>>
    /\ Idle

ChatNext == ProcessMessage \/ ResetConversation

SpecChat == ChatInit /\ [][ChatNext]_vars

----------------------------------------------------------------------------
(* Properties of analyze_runbook                                           *)

\* the document analyze_runbook was called on
AnalysedDocument == Entry(analysis.path).content

\* C1: every result of analyze_runbook has its four dimension scores in 0..100
\* and an overall score equal to their sum divided by 4.  (The sum is an
\* integer of at most 400, so the division by 4.0 is exact in floating point
\* and the fraction num/den stands for the float.)
C1_ScoresInRangeAndMean ==
    analysis.status = "returned" =>
        LET r == analysis.result
        IN  /\ r.completeness_score \in 0..100
            /\ r.structure_score \in 0..100
            /\ r.safety_score \in 0..100
            /\ r.clarity_score \in 0..100
            /\ 4 * r.overall_score.num =
                   r.overall_score.den * (r.completeness_score + r.structure_score
                                          + r.safety_score + r.clarity_score)

\* a result with four different-looking scores: 75, 100, 100 and 100, mean 375/4
C1_Witness ==
    /\ analysis.status = "returned"
    /\ analysis.result.completeness_score = 75
    /\ analysis.result.clarity_score = 100
    /\ analysis.result.overall_score = [num |-> 375, den |-> 4]

\* the document of the claim: the five required keys with a value, the three
\* required H2 headings, a numbered list, a fenced code block, "Safety:" and
\* "Validation:", no destructive command and no line over 140 characters
C2_CompleteDocument(content) ==
    LET parsed   == _parse_frontmatter(content)
        metadata == parsed[1]
        body     == parsed[2]
        lines    == splitlines(body)
    IN  /\ \A i \in 1..Len(REQUIRED_METADATA_KEYS) :
               DictGet(metadata, REQUIRED_METADATA_KEYS[i]) # ""
        /\ \A i \in 1..Len(REQUIRED_SECTIONS) : InSeq(REQUIRED_SECTIONS[i], Headings(body))
        /\ \E i \in 1..Len(lines) :
               At(lines[i], 1) \in DigitChars /\ At(lines[i], 2) = "." /\ At(lines[i], 3) = " "
        /\ Contains(body, FENCE)
        /\ Contains(body, "Safety:")
        /\ Contains(body, "Validation:")
        /\ ~SearchBounded(lower(body), DestructivePatterns)
        /\ \A i \in 1..Len(lines) : Len(lines[i]) <= 140

\* C2: a complete document (all five frontmatter keys, the headings Diagnosis,
\* Remediation and Rollback, a numbered list, a fenced code block, "Safety:",
\* "Validation:", nothing that triggers a deduction) scores 100 on completeness,
\* structure, safety and clarity.
C2_CompleteDocumentScores100 ==
    (analysis.status = "returned" /\ C2_CompleteDocument(AnalysedDocument)) =>
        /\ analysis.result.completeness_score = 100
        /\ analysis.result.structure_score = 100
        /\ analysis.result.safety_score = 100
        /\ analysis.result.clarity_score = 100

\* C9: analyze_runbook on a path that does not exist raises FileNotFoundError,
\* returns no result, and the file is never read (so neither parsed nor scored).
C9_MissingPathRaisesUnread ==
    (analysis.status # "none" /\ ~Exists(analysis.path)) =>
        /\ analysis.status = "raised"
        /\ analysis.error = "FileNotFoundError"
        /\ analysis.result = NoResult
        /\ ~analysis.read
        /\ reads = <<>>

\* analyze_runbook was called on a name the directory does not hold
C9_Witness ==
    /\ analysis.status = "raised"
    /\ analysis.path = "missing.md"
    /\ Entry(analysis.path) = NoEntry

----------------------------------------------------------------------------
(* Properties of the intent classification                                 *)

\* the analysis vocabulary and the incident vocabulary of the documentation
AnalysisVocabulary == {"analyze", "health", "score", "review", "assess", "improve", "recommend"}
IncidentVocabulary == {"incident", "alert", "error", "failure", "latency", "timeout",
                       "crash", "outage"}

\* msg contains one of the words as a whole word, in any letter case
HasWord(msg, words) == SearchWords(lower(msg), words)

\* C3: a message that contains, as a whole word in any letter case, one of
\* analyze, health, score, review, assess, improve, recommend is classified
\* "analysis".
C3_AnalysisWordsClassifyAnalysis ==
    (mode # "none" /\ HasWord(message, AnalysisVocabulary)) => mode = "analysis"

\* C4: a message with a word of the analysis vocabulary and a word of the
\* incident vocabulary is classified "analysis", never "incident".
C4_AnalysisBeforeIncident ==
    (mode # "none" /\ HasWord(message, AnalysisVocabulary)
                   /\ HasWord(message, IncidentVocabulary)) => mode = "analysis"

\* C5: a message without a word of the analysis vocabulary is classified
\* "incident" exactly when it contains a word of the incident vocabulary and
\* "general" otherwise; every message gets exactly one of the three modes.
C5_IncidentOrGeneral ==
    mode # "none" =>
        /\ mode \in {"analysis", "incident", "general"}
        /\ ~HasWord(message, AnalysisVocabulary) =>
               mode = (IF HasWord(message, IncidentVocabulary) THEN "incident" ELSE "general")

----------------------------------------------------------------------------
(* Properties of the retrieval                                             *)

\* the characters of a token: letters (lowered), digits and the underscore
TokenChars == LowerChars \cup DigitChars \cup {"_"}

\* the number of tokens of the alert (the maximal runs of token characters of
\* the lowered alert that are at least three characters long, each counted
\* where it stands) that occur in the lowered content
MatchScore(alertText, content) ==
    LET t   == lower(alertText)
        hay == lower(content)
        starts == { a \in 1..Len(t) : At(t, a) \in TokenChars /\ At(t, a - 1) \notin TokenChars }
        RunEnd(a) == CHOOSE e \in a..Len(t) :
                         /\ At(t, e + 1) \notin TokenChars
                         /\ \A k \in a..e : At(t, k) \in TokenChars
    IN  Cardinality({ a \in starts :
                        /\ RunEnd(a) - a + 1 >= 3
                        /\ Contains(hay, SubSeq(t, a, RunEnd(a))) })

\* the candidate scored last
LastScored == scan.scored[Len(scan.scored)]

\* C6: the score of a candidate is the number of alert tokens (lowercased runs
\* of letters, digits and underscore, at least 3 long) that occur in the
\* document whatever the letter case; for "Database Latency High" a document
\* with "database" and "latency" but without "high" scores 2; a document that
\* scored 0 is never the one returned.
C6_ScoreCountsTokens ==
    /\ scan.scored # <<>> =>
         /\ LastScored.score = MatchScore(alert, Entry(LastScored.name).content)
         /\ ( /\ alert = "Database Latency High"
              /\ Contains(lower(Entry(LastScored.name).content), "database")
              /\ Contains(lower(Entry(LastScored.name).content), "latency")
              /\ ~Contains(lower(Entry(LastScored.name).content), "high") )
            => LastScored.score = 2
    /\ scan.pc \in {"found", "responded"} =>
         \A i \in 1..Len(scan.scored) :
             scan.scored[i].score = 0 => scan.result # scan.scored[i].name

\* a runbook without any token was scanned first, then one with "database" and
\* "latency" in capitals: it scored 2 and is the one returned
C6_Witness ==
    /\ scan.pc = "found"
    /\ alert = "Database Latency High"
    /\ Len(scan.scored) = 2
    /\ scan.scored[1].score = 0
    /\ scan.scored[2].score = 2
    /\ Contains(Entry(scan.scored[2].name).content, "DATABASE LATENCY")
    /\ scan.result = scan.scored[2].name

\* the greatest score of the candidates scored so far, 0 if there is none
MaxScore(scored) ==
    IF scored = <<>> THEN 0
    ELSE LET S == { scored[i].score : i \in 1..Len(scored) }
         IN  CHOOSE m \in S : \A x \in S : x <= m

\* the first candidate, in scan order, whose score is the greatest one
FirstWithMax(scored) ==
    scored[CHOOSE i \in 1..Len(scored) :
               /\ scored[i].score = MaxScore(scored)
               /\ \A j \in 1..(i - 1) : scored[j].score < MaxScore(scored)]

\* C7 (as stated): after the scan _find_best_runbook returns the first
\* document, in iteration order, whose score equals the maximum score.
C7_ReturnsFirstMaximum ==
    (scan.pc = "found" /\ scan.scored # <<>>) =>
        scan.result = FirstWithMax(scan.scored).name

\* C7 (amended): at every turn of the loop the current best is the first
\* candidate so far whose score is the greatest, provided that score is above
\* 0, and no path otherwise: so a later candidate with an equal score never
\* replaces it, and the path returned is that of the best.
C7_FirstMaximumAboveZero ==
    /\ scan.best = IF MaxScore(scan.scored) > 0
                     THEN [score |-> MaxScore(scan.scored),
                           path  |-> FirstWithMax(scan.scored).name]
                   ELSE [score |-> 0, path |-> None]
    /\ scan.pc \in {"found", "responded"} => scan.result = scan.best.path

\* two candidates tie on the greatest score, above 0: the first is returned
C7_Witness ==
    /\ scan.pc = "found"
    /\ \E i, j \in 1..Len(scan.scored) :
           /\ i < j
           /\ scan.scored[i].score = MaxScore(scan.scored)
           /\ scan.scored[j].score = MaxScore(scan.scored)
           /\ MaxScore(scan.scored) > 0
           /\ scan.result = scan.scored[i].name

\* the entries of the directory whose name ends in .md, whatever the case
MarkdownEntries == { i \in 1..Len(listing) : IsMarkdown(listing[i].name) }

\* there is no directory, or no .md file in it, or every .md file matches no
\* token of the alert
NoData ==
    \/ ~dirExists
    \/ MarkdownEntries = {}
    \/ \A i \in MarkdownEntries :
           listing[i].kind = "file" /\ MatchScore(alert, listing[i].content) = 0

----------------------------------------------------------------------------
(* Properties of the batch analysis                                        *)

\* the .md entries analyze_runbook analyses without raising
AnalysableEntries == { i \in MarkdownEntries : listing[i].kind = "file" }

\* C10: analyze_all_runbooks never raises; without a directory it returns the
\* empty list; else it returns exactly one analysis for each entry whose name
\* ends in .md (whatever the case) that analyze_runbook analyses without
\* raising, the entries before and after a failing one included.
C10_BatchSkipsFailures ==
    /\ batch.pc # "raised"
    /\ batch.pc = "returned" =>
         /\ ~dirExists => batch.analyses = <<>>
         /\ Len(batch.analyses) = Cardinality(AnalysableEntries)
         /\ \A i \in AnalysableEntries :
                \E k \in 1..Len(batch.analyses) :
                    batch.analyses[k] = Analysis(listing[i].name, listing[i].content)

\* B.MD and c.md are analysed, a.md (sorted between them) is a directory
C10_Witness ==
    /\ batch.pc = "returned"
    /\ Len(batch.analyses) = 2
    /\ batch.analyses[1].filename = "B.MD"
    /\ batch.analyses[2].filename = "c.md"
    /\ Entry("a.md").kind = "dir"

----------------------------------------------------------------------------
(* Properties of the health summary                                        *)

\* the names of the five fields of the summary
SummaryFields == {"overall_health", "average_completeness", "average_structure",
                  "average_safety", "average_clarity"}

\* C11: get_health_summary on an empty collection raises nothing and returns
\* overall_health and the four averages all equal to 0.0.
C11_EmptySummaryIsZero ==
    (summary.status # "none" /\ batch.analyses = <<>>) =>
        /\ summary.status = "returned"
        /\ DOMAIN summary = SummaryFields \cup {"status"}
        /\ \A f \in SummaryFields : summary[f].num = 0 /\ summary[f].den > 0

\* the directory holds two entries named *.md, none could be analysed: the
\* summary of the empty list was returned
C11_Witness ==
    /\ summary.status = "returned"
    /\ batch.analyses = <<>>
    /\ Cardinality(MarkdownEntries) = 2

\* the sum of field f over the analyses, i running from 1
RECURSIVE Total(_, _)
Total(values, i) ==
    IF i > Len(values) THEN 0 ELSE values[i] + Total(values, i + 1)

\* the fraction q is the mean of the whole numbers values divided by scale
IsMeanOf(q, values, scale) ==
    /\ q.den > 0
    /\ q.num * Len(values) * scale = q.den * Total(values, 1)

\* C12: on a non-empty collection get_health_summary returns for each
\* dimension the arithmetic mean of the dimension's scores, and as
\* overall_health the arithmetic mean of the overall scores (each a number of
\* quarters); every field lies in 0..100.
C12_SummaryIsMean ==
    (summary.status # "none" /\ batch.analyses # <<>>) =>
        LET as == batch.analyses
            n  == Len(as)
        IN  /\ summary.status = "returned"
            /\ IsMeanOf(summary.average_completeness,
                        [ i \in 1..n |-> as[i].completeness_score ], 1)
            /\ IsMeanOf(summary.average_structure,
                        [ i \in 1..n |-> as[i].structure_score ], 1)
            /\ IsMeanOf(summary.average_safety,
                        [ i \in 1..n |-> as[i].safety_score ], 1)
            /\ IsMeanOf(summary.average_clarity,
                        [ i \in 1..n |-> as[i].clarity_score ], 1)
            /\ \A i \in 1..n : as[i].overall_score.den = 4
            /\ IsMeanOf(summary.overall_health,
                        [ i \in 1..n |-> as[i].overall_score.num ], 4)
            /\ \A f \in SummaryFields :
                   0 <= summary[f].num /\ summary[f].num <= 100 * summary[f].den

\* three analyses of different runbooks were summarised: the completeness
\* average is no score of any of them
C12_Witness ==
    /\ summary.status = "returned"
    /\ Len(batch.analyses) = 3
    /\ \E i, j \in 1..3 :
           batch.analyses[i].completeness_score # batch.analyses[j].completeness_score
    /\ \A i \in 1..3 :
           summary.average_completeness.num
               # summary.average_completeness.den * batch.analyses[i].completeness_score

\* ---- frontmatter parsing (C13, C14) ----

RECURSIVE SerializeKeys(_, _)
\* one "key: value" line per entry of the mapping M, for the keys in keys
SerializeKeys(M, keys) ==
    IF keys = {} THEN <<>>
    ELSE LET k == CHOOSE x \in keys : TRUE
         IN  <<k \o ": " \o M[k]>> \o SerializeKeys(M, keys \ {k})

\* M written out as key: value lines
Serialize(M) == Join(SerializeKeys(M, DOMAIN M), "\n")

\* C13: the metadata mapping M parsed from a document's frontmatter, written out
\* as one "key: value" line per entry and parsed again, gives a mapping equal to M.
C13_FrontmatterRoundTrip ==
    parse.pc = "parsed" => _parse_yaml_kv(Serialize(parse.metadata)) = parse.metadata

\* the lines between the two --- lines of the parsed document
DocumentLines == SubSeq(splitlines(document), 2, Len(splitlines(document)) - 2)

\* line is written with key k
HasKey(line, k) == MatchesAt(line, 1, k \o ": ")

\* the text after the colon of a line written with key k
RawValue(line, k) == SubSeq(line, Len(k) + 2, Len(line))

\* v without its surrounding whitespace and without one layer of surrounding
\* quotes, if it is wrapped in a pair of the same quote character
OneLayerStripped(v) ==
    LET t == strip(v)
    IN  IF Len(t) >= 2 /\ At(t, 1) \in {"\"", "'"} /\ At(t, Len(t)) = At(t, 1)
          THEN SubSeq(t, 2, Len(t) - 1)
          ELSE t

\* C14: the value parsed for a key is the text of the key's (last) line with
\* exactly one layer of surrounding single or double quotes stripped: an inner
\* layer stays, and quote characters that are no surrounding pair stay.
C14_OneQuoteLayerStripped ==
    parse.pc = "parsed" =>
        \A i \in 1..Len(DocumentLines) : \A k \in FrontmatterKeys :
            ( /\ HasKey(DocumentLines[i], k)
              /\ \A j \in (i + 1)..Len(DocumentLines) : ~HasKey(DocumentLines[j], k) )
            => /\ k \in DOMAIN parse.metadata
               /\ parse.metadata[k] = OneLayerStripped(RawValue(DocumentLines[i], k))


\* ---- order of issues and recommendations (C15) ----

\* what _parse_frontmatter and the heading search give for the analysed document
AnalysedMetadata == _parse_frontmatter(AnalysedDocument)[1]
AnalysedBody == _parse_frontmatter(AnalysedDocument)[2]
AnalysedHeadings == Headings(AnalysedBody)

\* what each scorer returns for the analysed document
AnalysedCompleteness == _score_completeness(AnalysedMetadata, AnalysedBody, AnalysedHeadings)
AnalysedStructure == _score_structure(AnalysedMetadata, AnalysedBody, AnalysedHeadings)
AnalysedSafety == _score_safety(AnalysedBody, AnalysedHeadings)
AnalysedClarity == _score_clarity(AnalysedBody)

\* C15: the issues of an analysis result are the issues of the completeness,
\* structure, safety and clarity scorers, concatenated in this order, each
\* scorer's issues in the order it emitted them; the recommendations likewise.
C15_IssuesInScorerOrder ==
    analysis.status = "returned" =>
        /\ analysis.result.issues =
               AnalysedCompleteness.issues \o AnalysedStructure.issues
                   \o AnalysedSafety.issues \o AnalysedClarity.issues
        /\ analysis.result.recommendations =
               AnalysedCompleteness.recs \o AnalysedStructure.recs
                   \o AnalysedSafety.recs \o AnalysedClarity.recs

\* an analysis in which the completeness scorer and the clarity scorer both
\* emitted issues, and more than one recommendation was made
C15_Witness ==
    /\ analysis.status = "returned"
    /\ AnalysedCompleteness.issues # <<>>
    /\ AnalysedClarity.issues # <<>>
    /\ AnalysedCompleteness.issues # AnalysedClarity.issues
    /\ Len(analysis.result.recommendations) >= 2


\* ---- the response for a matched runbook (C16) ----

\* the line is a ## heading: ## at its start, followed by whitespace or nothing
IsH2Line(line) ==
    LET t == strip(line)
    IN  MatchesAt(t, 1, "##") /\ (Len(t) = 2 \/ At(t, 3) \in SpaceChars)

\* the line is the ## heading of the section name
IsSectionLine(line, name) ==
    LET t == strip(line)
    IN  IsH2Line(line) /\ Len(t) > 2 /\ strip(SubSeq(t, 3, Len(t))) = name

\* the text of the section name of body: the lines after the first heading of
\* that name up to the next ## heading or the end of the text, "" if the
\* section is missing
SectionText(body, name) ==
    LET lines == splitlines(body)
        hs    == { i \in 1..Len(lines) : IsSectionLine(lines[i], name) }
    IN  IF hs = {} THEN ""
        ELSE LET i     == SetMin(hs)
                 later == { j \in (i + 1)..Len(lines) : IsH2Line(lines[j]) }
                 j     == IF later = {} THEN Len(lines) + 1 ELSE SetMin(later)
             IN  strip(Join(SubSeq(lines, i + 1, j - 1), "\n"))

\* the block of the section name: its text, or the placeholder
Block(body, name) ==
    IF SectionText(body, name) = "" THEN "No explicit " \o name \o " steps found."
    ELSE SectionText(body, name)

\* the body of the runbook handle_alert matched
MatchedBody == _parse_frontmatter(Entry(scan.result).content)[2]

\* C16: when a runbook is matched, the response of handle_alert is the matched
\* filename line, a ## Diagnosis block, a ## Remediation block, a ## Rollback
\* block and the safety note, in this order; no block is empty: a missing or
\* empty section gives "No explicit <Section> steps found.", a present section
\* gives its text up to the next ## heading or the end of the text.
C16_ResponseFullyPopulated ==
    (scan.pc = "responded" /\ scan.result # None) =>
        /\ response =
               "Matched runbook: " \o scan.result
               \o "\n\n## Diagnosis\n" \o Block(MatchedBody, "Diagnosis")
               \o "\n\n## Remediation\n" \o Block(MatchedBody, "Remediation")
               \o "\n\n## Rollback\n" \o Block(MatchedBody, "Rollback")
               \o "\n\nSafety note: confirm impact/approvals before any destructive action."
        /\ \A name \in {"Diagnosis", "Remediation", "Rollback"} : Block(MatchedBody, name) # ""

\* a response for a runbook with a section that has text, a section whose
\* heading is there without text and a section that is missing
C16_Witness ==
    /\ scan.pc = "responded"
    /\ scan.result # None
    /\ \E present, empty, missing \in {"Diagnosis", "Remediation", "Rollback"} :
           /\ SectionText(MatchedBody, present) # ""
           /\ SectionText(MatchedBody, empty) = ""
           /\ \E i \in 1..Len(splitlines(MatchedBody)) :
                  IsSectionLine(splitlines(MatchedBody)[i], empty)
           /\ SectionText(MatchedBody, missing) = ""
           /\ \A i \in 1..Len(splitlines(MatchedBody)) :
                  ~IsSectionLine(splitlines(MatchedBody)[i], missing)
    /\ Contains(response, "No explicit")


\* ---- order of the batch results (C17) ----

\* the file names of the analyses made so far
ResultNames == [ k \in 1..Len(batch.analyses) |-> batch.analyses[k].filename ]

\* the names of the .md entries analyze_runbook analyses without raising, in
\* the order of the directory listing
AnalysableInListingOrder ==
    LET ok == SelectSeq(listing, LAMBDA e : IsMarkdown(e.name) /\ e.kind = "file")
    IN  [ k \in 1..Len(ok) |-> ok[k].name ]

\* C17 as stated: the results follow the directory listing order, the i-th
\* result is the analysis of the i-th successfully analysed .md file of the
\* listing, whatever the order of the listing.
C17_ResultsInListingOrder ==
    batch.pc = "returned" => ResultNames = AnalysableInListingOrder

\* C17, amended: the documents are read one at a time, in the increasing order
\* of their file names, the result of a document that is analysed is in the
\* list before the next document is read, and so the results are in the
\* increasing order of the file names, whatever the order of the directory
\* listing; they are the analyses of the successfully analysed .md files.
C17_ResultsInNameOrder ==
    batch.pc \in {"loop", "returned"} =>
        /\ \A i, j \in 1..Len(ResultNames) : i < j => StrLess(ResultNames[i], ResultNames[j])
        /\ \A i, j \in 1..Len(reads) : i < j => StrLess(reads[i], reads[j])
        /\ ResultNames = SelectSeq(reads, LAMBDA n : Entry(n).kind = "file")
        /\ \A k \in 1..Len(ResultNames) : \A n \in { batch.queue[q] : q \in 1..Len(batch.queue) } :
               StrLess(ResultNames[k], n)
        /\ batch.pc = "returned" =>
               { ResultNames[k] : k \in 1..Len(ResultNames) }
                   = { listing[i].name : i \in AnalysableEntries }

\* two runbooks listed in decreasing order of their names, both analysed
C17_Witness ==
    /\ batch.pc = "returned"
    /\ Len(ResultNames) >= 2
    /\ ResultNames # AnalysableInListingOrder
    /\ \E i, j \in AnalysableEntries : i < j /\ StrLess(listing[j].name, listing[i].name)


\* ---- the completeness score (C19) ----

\* the text is an issue of the completeness scorer
IsCompletenessIssue(text) ==
    \/ text = "Missing trigger criteria (when to use this runbook)."
    \/ MatchesAt(text, 1, "Missing required sections: ")
    \/ text = "No explicit validation/verification steps found."
    \/ text = "No service owner / escalation contact found."

\* the text is a recommendation of the completeness scorer
IsCompletenessRec(text) ==
    \/ text = "Add ~trigger_criteria~ in frontmatter and describe clear activation conditions."
    \/ text = "Add the missing required sections: Diagnosis, Remediation, Rollback."
    \/ text = "Add a 'Validation' step after remediation to confirm the issue is resolved."
    \/ text = "Add ~service_owner~ in frontmatter and escalation/on-call contact info."

\* the required sections that are headings of the analysed document
SectionsPresent ==
    { i \in 1..Len(REQUIRED_SECTIONS) : InSeq(REQUIRED_SECTIONS[i], AnalysedHeadings) }

\* the validation and verification vocabulary: the words of the pattern of
\* _score_completeness and the word of the step the scorer recommends
ValidationVocabulary == ValidationPattern \cup { Lit("validation") }

\* the four checks of completeness on the analysed document: trigger criteria
\* (metadata value or mention), all three sections, validation vocabulary,
\* owner or escalation contact (metadata value or mention)
ChecksMet ==
    << DictGet(AnalysedMetadata, "trigger_criteria") # ""
           \/ SearchPlain(lower(AnalysedBody), TriggerPattern),
       Cardinality(SectionsPresent) = 3,
       SearchBounded(lower(AnalysedBody), ValidationVocabulary),
       DictGet(AnalysedMetadata, "service_owner") # ""
           \/ SearchBounded(lower(AnalysedBody), OwnerPattern) >>

\* C19: the completeness score is 25 times the number of checks met among the
\* four; each check that is not met appends exactly one issue and one
\* recommendation, so completeness_score + 25 * (number of completeness
\* issues) = 100; with only one or two of the three required sections the
\* section check earns nothing.
C19_CompletenessAllOrNothing ==
    analysis.status = "returned" =>
        LET r     == analysis.result
            n     == Len(SelectSeq(r.issues, IsCompletenessIssue))
            nrecs == Len(SelectSeq(r.recommendations, IsCompletenessRec))
            met   == Cardinality({ i \in 1..4 : ChecksMet[i] })
        IN  /\ r.completeness_score = 25 * met
            /\ n = 4 - met
            /\ nrecs = n
            /\ r.completeness_score + 25 * n = 100
            /\ Cardinality(SectionsPresent) \in {1, 2} =>
                   /\ \E i \in 1..Len(r.issues) :
                          MatchesAt(r.issues[i], 1, "Missing required sections: ")
                   /\ r.completeness_score =
                          25 * Cardinality({ i \in {1, 3, 4} : ChecksMet[i] })


\* ---- the structure score (C20) ----

\* the analysed document has a metadata block
HasMetadataBlock == FrontmatterMatch(AnalysedDocument).ok

\* the key is present in the metadata: it has a value that is not empty (a key
\* written without a value is reported by the scorer as missing)
KeyPresent(k) == k \in DOMAIN AnalysedMetadata /\ AnalysedMetadata[k] # ""

\* m: the number of the five required keys that are missing
MissingKeyCount ==
    Cardinality({ i \in 1..Len(REQUIRED_METADATA_KEYS) : ~KeyPresent(REQUIRED_METADATA_KEYS[i]) })

\* the penalty for the missing keys, capped at the 40 points granted
Penalty == IF 8 * MissingKeyCount > 40 THEN 40 ELSE 8 * MissingKeyCount

\* G: nothing without a metadata block, else the 40 points less the penalty
G == IF HasMetadataBlock THEN 40 - Penalty ELSE 0

\* 1 if P holds, else 0
Bit(P) == IF P THEN 1 ELSE 0

\* C20: the structure score is G + 30 * [at least one H2 heading] + 15 * [version
\* key present] + 15 * [service_owner key present], with G = 0 without a metadata
\* block and G = 40 - min(40, 8 * m) with one, m the number of missing required
\* keys; the penalty is at most the 40 points granted, so the sum is never
\* negative, and the score is in 0..100.
C20_StructureScoreFormula ==
    analysis.status = "returned" =>
        /\ analysis.result.structure_score =
               G + 30 * Bit(AnalysedHeadings # <<>>) + 15 * Bit(KeyPresent("version"))
                 + 15 * Bit(KeyPresent("service_owner"))
        /\ Penalty <= 40
        /\ G >= 0
        /\ analysis.result.structure_score \in 0..100

\* a document with a metadata block in which some, not all, required keys are
\* missing, and with a heading
C20_Witness ==
    /\ analysis.status = "returned"
    /\ HasMetadataBlock
    /\ MissingKeyCount \in 1..4
    /\ AnalysedHeadings # <<>>
    /\ analysis.result.structure_score = (40 - 8 * MissingKeyCount) + 30


----------------------------------------------------------------------------
(* Properties of the chatbot                                               *)

\* C18: the conversation history is never consulted: whatever process_message
\* and reset_conversation calls a chatbot has seen, process_message returns the
\* mode and the response text that a chatbot with an empty history and the same
\* runbook directory returns for the same message and the same uploaded
\* documents (so any two chatbots with different histories return the same).
C18_HistoryNotConsulted ==
    reply.mode # "none" => reply = process_message(<<>>, message, uploads)

\* a general message answered after an analysis request with an uploaded
\* document: the history holds the earlier exchange, in another mode
C18_Witness ==
    /\ Len(history) = 4
    /\ history[1].content = "review my runbook"
    /\ history[3].content = "hello"
    /\ tmpFiles # EmptyDict
    /\ reply.mode = "general"
    /\ reply.response = history[4].content


----------------------------------------------------------------------------
(* Properties of the safety and the clarity scorers                        *)

\* the faults of the scored body the safety scorer looks for
Destructive == SearchBounded(lower(document), DestructivePatterns)
Confirmed == SearchBounded(lower(document), ConfirmationPattern)
NoRollbackHeading == ~InSeq("rollback", Headings(document))
NoSafetyWord == ~SearchBounded(lower(document), SafetyWordsPattern)

DestructiveIssue ==
    "Potentially destructive actions detected without an explicit confirmation/approval step."

\* the sum of the safety deductions of the scored body
SafetyDeductions ==
    35 * Bit(Destructive /\ ~Confirmed) + 40 * Bit(NoRollbackHeading) + 15 * Bit(NoSafetyWord)

\* C21: the safety score is 100 - 35 * [a destructive pattern occurs and no
\* confirmation/approval phrase occurs anywhere in the body] - 40 * [no rollback
\* heading] - 15 * [no safety/warning/caution word], clamped to 0..100; a
\* destructive pattern with a confirmation/approval phrase somewhere in the
\* body causes no deduction and no issue.
C21_SafetyScoreFormula ==
    scoring.scorer = "safety" =>
        /\ scoring.out.score = Max2(0, Min2(100, 100 - SafetyDeductions))
        /\ (Destructive /\ Confirmed) =>
               /\ ~InSeq(DestructiveIssue, scoring.out.issues)
               /\ scoring.out.score = 100 - 40 * Bit(NoRollbackHeading) - 15 * Bit(NoSafetyWord)

\* a body with a destructive command, an approval phrase, a rollback heading
\* and a safety word: scored 100, without issue
C21_Witness ==
    /\ scoring.scorer = "safety"
    /\ Destructive
    /\ Confirmed
    /\ scoring.out.score = 100
    /\ scoring.out.issues = <<>>


\* ---- the clarity score (C22) ----

\* the non-blank lines of the scored body
NonBlankLines == SelectSeq(splitlines(document), LAMBDA ln : strip(ln) # "")

\* the number of the lines of more than 140 characters
LongCount(lines) == Cardinality({ i \in 1..Len(lines) : Len(lines[i]) > 140 })

\* some line begins a numbered or bulleted list item
HasListItem(lines) == \E i \in 1..Len(lines) : IsStep(lines[i])

\* max(3, n // 10)
LongLineThreshold(n) == IF n \div 10 > 3 THEN n \div 10 ELSE 3

\* the clarity score of a body whose non-blank lines are lines
ClarityOf(lines) ==
    (IF HasListItem(lines) THEN 45 ELSE 20)
    + (IF Contains(document, FENCE) THEN 30 ELSE 15)
    + (IF LongCount(lines) <= LongLineThreshold(Len(lines)) THEN 25 ELSE 10)

\* what the claim says of the outcome out for a body whose non-blank lines are lines
ClarityAsStated(lines, out) ==
    IF lines = <<>>
      THEN out = [score  |-> 0,
                  issues |-> << "Runbook content is empty." >>,
                  recs   |-> << "Add clear, step-by-step runbook content." >>]
    ELSE /\ out.score = ClarityOf(lines)
         /\ ~InSeq("Runbook content is empty.", out.issues)

\* C22: for a body with a non-blank line the clarity score is (45 with a list
\* item, else 20) + (30 with a code fence marker, else 15) + (25 when the number
\* of non-blank lines longer than 140 characters is at most max(3, n // 10),
\* else 10), the threshold being inclusive and a line of exactly 140 characters
\* not being long; for a blank body the score is 0 with exactly one issue and
\* one recommendation, those of the empty content.
C22_ClarityScoreFormula ==
    scoring.scorer = "clarity" => ClarityAsStated(NonBlankLines, scoring.out)

\* the number of long lines among lines is exactly the threshold, which is 4,
\* and a line of exactly 140 characters is among them
AtThreshold(lines) ==
    /\ LongLineThreshold(Len(lines)) = 4
    /\ LongCount(lines) = 4
    /\ \E i \in 1..Len(lines) : Len(lines[i]) = 140

\* a body of 40 non-blank lines or more with exactly as many long lines as the
\* threshold allows and a line of exactly 140 characters, scored 100
C22_Witness ==
    /\ scoring.scorer = "clarity"
    /\ scoring.out.score = 100
    /\ AtThreshold(NonBlankLines)

----------------------------------------------------------------------------
(* Properties of the analysis of particular documents                      *)

\* C23: a completely empty document scores 0 on completeness with its four
\* checks reported missing, 0 on structure, 45 on safety (40 lost for the
\* rollback heading, 15 for the safety words, nothing for destructive actions),
\* 0 on clarity with the issue of the empty content only; overall 11.25.
C23_EmptyDocumentScores ==
    (analysis.status = "returned" /\ AnalysedDocument = "") =>
        LET r == analysis.result
        IN  /\ r.completeness_score = 0
            /\ Len(SelectSeq(r.issues, IsCompletenessIssue)) = 4
            /\ r.structure_score = 0
            /\ r.safety_score = 45
            /\ InSeq("No rollback section found (required for safe operations).", r.issues)
            /\ InSeq("No safety warnings/cautions found.", r.issues)
            /\ ~InSeq(DestructiveIssue, r.issues)
            /\ r.clarity_score = 0
            /\ r.issues[Len(r.issues)] = "Runbook content is empty."
            /\ ~InSeq("No fenced code blocks found for commands.", r.issues)
            /\ r.overall_score.num * 100 = 1125 * r.overall_score.den

\* the empty document has been analysed
C23_Witness ==
    /\ analysis.status = "returned"
    /\ AnalysedDocument = ""
    /\ analysis.result.safety_score = 45
    /\ Len(analysis.result.issues) = 11


\* ---- issues and recommendations (C24, C27) ----

\* the issues of each dimension, with the recommendation emitted with each
\* (the issue of the missing sections and the issue of the missing keys end
\* with the names that are missing: they are given by their first words)
CompletenessPairs ==
    << << "Missing trigger criteria (when to use this runbook).",
          "Add ~trigger_criteria~ in frontmatter and describe clear activation conditions." >>,
       << "Missing required sections: ",
          "Add the missing required sections: Diagnosis, Remediation, Rollback." >>,
       << "No explicit validation/verification steps found.",
          "Add a 'Validation' step after remediation to confirm the issue is resolved." >>,
       << "No service owner / escalation contact found.",
          "Add ~service_owner~ in frontmatter and escalation/on-call contact info." >> >>

StructurePairs ==
    << << "Frontmatter is missing keys: ",
          "Add missing required frontmatter keys (title, version, service_owner, severity, trigger_criteria)." >>,
       << "Missing YAML frontmatter metadata block.",
          "Add a YAML frontmatter block (~--- ... ---~) with runbook metadata." >>,
       << "No H2 sections (##) detected; runbook may be poorly structured.",
          "Use consistent headings like '## Diagnosis', '## Remediation', and '## Rollback'." >>,
       << "No version found in metadata.",
          "Add a ~version~ field in frontmatter for runbook change control." >>,
       << "No service owner found in metadata.",
          "Add ~service_owner~ in frontmatter." >> >>

SafetyPairs ==
    << << DestructiveIssue,
          "Add a confirmation/approval step before any destructive command." >>,
       << "No rollback section found (required for safe operations).",
          "Add a Rollback section with clear recovery steps." >>,
       << "No safety warnings/cautions found.",
          "Add a short 'Safety' note (permissions, impact, maintenance window, backups)." >> >>

ClarityPairs ==
    << << "Runbook content is empty.", "Add clear, step-by-step runbook content." >>,
       << "No step-by-step list detected (harder to follow during incidents).",
          "Use numbered steps for Diagnosis/Remediation/Rollback procedures." >>,
       << "No fenced code blocks found for commands.",
          "Wrap commands in fenced code blocks (~~~bash ... ~~~)." >>,
       << "Runbook contains very long lines that may reduce readability.",
          "Wrap long lines and keep steps concise (aim for <140 chars per line)." >> >>

\* the issue and the recommendation are one of the pairs
PairedIn(pairs, issue, rec) ==
    \E k \in 1..Len(pairs) : MatchesAt(issue, 1, pairs[k][1]) /\ rec = pairs[k][2]

\* the issue is an issue of the dimension with these pairs
IssueOf(pairs, issue) == \E k \in 1..Len(pairs) : MatchesAt(issue, 1, pairs[k][1])

AllPairs == CompletenessPairs \o StructurePairs \o SafetyPairs \o ClarityPairs

\* the result r has an issue of the dimension with these pairs
Explained(r, pairs) == \E i \in 1..Len(r.issues) : IssueOf(pairs, r.issues[i])

\* C24: in every analysis result the issues and the recommendations have the
\* same length, the i-th recommendation is the one emitted with the i-th
\* issue, and a dimension whose score is below 100 has contributed at least
\* one issue.
C24_DeductionsExplained ==
    analysis.status = "returned" =>
        LET r == analysis.result
        IN  /\ Len(r.issues) = Len(r.recommendations)
            /\ \A i \in 1..Len(r.issues) : PairedIn(AllPairs, r.issues[i], r.recommendations[i])
            /\ r.completeness_score < 100 => Explained(r, CompletenessPairs)
            /\ r.structure_score < 100 => Explained(r, StructurePairs)
            /\ r.safety_score < 100 => Explained(r, SafetyPairs)
            /\ r.clarity_score < 100 => Explained(r, ClarityPairs)

\* an analysis with a deduction in each of the four dimensions
C24_Witness ==
    /\ analysis.status = "returned"
    /\ analysis.result.completeness_score \in 1..99
    /\ analysis.result.structure_score \in 1..99
    /\ analysis.result.safety_score \in 1..99
    /\ analysis.result.clarity_score \in 1..99
    /\ Len(analysis.result.issues) >= 4



\* ---------------------------------------------------------------------
\* Properties of a perfect score (C27)

\* the four dimension scores of the returned analysis are all 100
AllDimensionsPerfect ==
    /\ analysis.result.completeness_score = 100
    /\ analysis.result.structure_score = 100
    /\ analysis.result.safety_score = 100
    /\ analysis.result.clarity_score = 100

\* C27: a runbook that scores 100 on all four dimensions has no issue and no
\* recommendation.  The code violates it: _score_clarity appends the long-lines
\* issue whenever a line exceeds 140 characters, also when the lines are few
\* enough to keep the 25 points.
C27_PerfectScoreNoIssues ==
    (analysis.status = "returned" /\ AllDimensionsPerfect) =>
        /\ analysis.result.issues = <<>>
        /\ analysis.result.recommendations = <<>>

\* a perfect runbook is reported with the long-lines issue
C27_PerfectWithIssue ==
    /\ analysis.status = "returned"
    /\ AllDimensionsPerfect
    /\ analysis.result.overall_score = [num |-> 400, den |-> 4]
    /\ analysis.result.issues = <<"Runbook contains very long lines that may reduce readability.">>
    /\ Len(analysis.result.recommendations) = 1


\* ---------------------------------------------------------------------
\* Properties of the stacking of the safety deductions (C25)

RollbackIssue == "No rollback section found (required for safe operations)."

SafetyWordIssue == "No safety warnings/cautions found."

\* the scored body has the three safety faults at once
AllSafetyFaults == Destructive /\ ~Confirmed /\ NoRollbackHeading /\ NoSafetyWord

\* C25, as the code has it: the three safety deductions are independent of one
\* another, each is made exactly when its own fault is there, and they stack
\* to 35 + 40 + 15 = 90 at most, so that the score before clamping is 10 at
\* least and the clamp to 0..100 never changes it; the body with the three
\* faults scores 10.
C25_DeductionsStackTo90 ==
    scoring.scorer = "safety" =>
        /\ InSeq(DestructiveIssue, scoring.out.issues) <=> (Destructive /\ ~Confirmed)
        /\ InSeq(RollbackIssue, scoring.out.issues) <=> NoRollbackHeading
        /\ InSeq(SafetyWordIssue, scoring.out.issues) <=> NoSafetyWord
        /\ scoring.out.score = 100 - SafetyDeductions
        /\ scoring.out.score >= 10
        /\ scoring.out.score = 10 <=> AllSafetyFaults

\* a body with the three faults, scored 10 with the three issues
C25_Witness ==
    /\ scoring.scorer = "safety"
    /\ AllSafetyFaults
    /\ scoring.out.score = 10
    /\ Len(scoring.out.issues) = 3

\* C25, as stated: the three deductions stack to 0 or less before clamping, so
\* the body with the three faults is scored 0 by the lower clamp.
C25_StackReachesLowerClamp ==
    (scoring.scorer = "safety" /\ AllSafetyFaults) => scoring.out.score = 0


\* ---------------------------------------------------------------------
\* Properties of the loader (C26)

\* the positions in Encodings of the encodings that decode the file without error
Decodable == { i \in 1..Len(Encodings) : Decode(Encodings[i], fileBytes).ok }

\* the first of them
FirstDecodable == CHOOSE i \in Decodable : \A j \in Decodable : i <= j

\* C26: _read_text tries utf-8, utf-8-sig and cp1252 in this order and returns
\* what the first one that decodes without error gives; only if the three fail
\* does it decode utf-8 with replacement.  For every content of an existing
\* file it returns a text and raises no decode error.
C26_FirstEncodingThatDecodes ==
    loaded.caller # "none" =>
        /\ loaded.out.status = "returned"
        /\ Encodings = <<"utf-8", "utf-8-sig", "cp1252">>
        /\ IF Decodable # {}
           THEN /\ loaded.out.encoding = Encodings[FirstDecodable]
                /\ loaded.out.text
                       = UniversalNewlines(Decode(Encodings[FirstDecodable], fileBytes).text)
                /\ loaded.out.tried = FirstDecodable - 1
           ELSE /\ loaded.out.encoding = "replace"
                /\ loaded.out.text = UniversalNewlines(Decode("replace", fileBytes).text)
                /\ loaded.out.tried = 3

\* a file that none of the three encodings decodes: read with replacement
C26_Witness ==
    /\ loaded.caller = "analyzer"
    /\ Decodable = {}
    /\ loaded.out.status = "returned"
    /\ loaded.out.encoding = "replace"
    /\ InSeq(REPLACEMENT, loaded.out.text)

\* a file that utf-8 does not decode and cp1252 does
C26_LegacyCodepage ==
    /\ loaded.caller = "agent"
    /\ Decodable = {3}
    /\ loaded.out.encoding = "cp1252"
    /\ loaded.out.text # <<>>


\* ---------------------------------------------------------------------
\* Properties of the sections the analyzer and the agent see (C28)

\* the analyzer counts the three required sections as present in body: the
\* check of _score_completeness on the lowered headings
AnalyzerSeesSections(body) ==
    \A s \in {"diagnosis", "remediation", "rollback"} : InSeq(s, Headings(body))

\* each of the three sections of body has text, whatever the letter case of
\* its heading
SectionsHaveText(body) ==
    \A s \in {"diagnosis", "remediation", "rollback"} : SectionText(lower(body), s) # ""

\* C28: whenever the analyzer counts the headings diagnosis, remediation and
\* rollback as present in the body of the matched runbook and each of these
\* sections has non-blank text, handle_alert returns the text of each section
\* and no "No explicit ... steps found." placeholder, for every letter case of
\* the heading names.  The code violates it: _extract_sections looks for the
\* names Diagnosis, Remediation, Rollback in exactly this case.
C28_AgentFindsAnalyzerSections ==
    (/\ scan.pc = "responded"
     /\ scan.result # None
     /\ AnalyzerSeesSections(MatchedBody)
     /\ SectionsHaveText(MatchedBody)) =>
        /\ ~Contains(response, "No explicit")
        /\ \A name \in {"Diagnosis", "Remediation", "Rollback"} :
               section(MatchedBody, name) # ""

\* the runbook with the three sections under headings in another letter case:
\* the response holds the three placeholders
C28_PlaceholdersForPresentSections ==
    /\ scan.pc = "responded"
    /\ scan.result # None
    /\ AnalyzerSeesSections(MatchedBody)
    /\ SectionsHaveText(MatchedBody)
    /\ Contains(response, "No explicit Diagnosis steps found.")
    /\ Contains(response, "No explicit Remediation steps found.")
    /\ Contains(response, "No explicit Rollback steps found.")


\* ---------------------------------------------------------------------
\* Properties of the retrieval under every order of the listing (C29)

\* the greatest score of the .md entries of the directory, 0 if there is none
BestScore ==
    LET S == { MatchScore(alert, listing[i].content) : i \in MarkdownEntries } \cup {0}
    IN  CHOOSE m \in S : \A x \in S : x <= m

\* the orders os.listdir can give the names of the directory in
ListingOrders ==
    LET n == Len(listing)
    IN  { [i \in 1..n |-> listing[p[i]].name] :
            p \in { f \in [1..n -> 1..n] : \A i, j \in 1..n : f[i] = f[j] => i = j } }

\* what _find_best_runbook returns when os.listdir gives the names in order
FoundUnder(order) ==
    FindRun([NoScan EXCEPT !.pc = "loop", !.tokens = _tokens(alert), !.queue = order])

\* the score of what _find_best_runbook returned, 0 if it returned no path
ScoreOf(path) == IF path = None THEN 0 ELSE MatchScore(alert, Entry(path).content)

\* C29: the document _find_best_runbook returns has the greatest score of all
\* .md candidates, under every order of the directory listing: two orders
\* return different paths only among documents tied at that score, and a path
\* is returned under one order if and only if one is returned under every order.
C29_ResultQualityOrderIndependent ==
    (scan.pc = "found" /\ dirExists) =>
        LET best == BestScore
        IN  /\ ScoreOf(scan.result) = best
            /\ scan.result # None <=> best > 0
            /\ \A order \in ListingOrders :
                   LET found == FoundUnder(order)
                   IN  /\ ScoreOf(found) = best
                       /\ found # None <=> scan.result # None

\* two orders of one directory return different paths, tied at the greatest score
C29_Witness ==
    /\ scan.pc = "found"
    /\ dirExists
    /\ scan.result # None
    /\ \E order \in ListingOrders :
           /\ FoundUnder(order) # None
           /\ FoundUnder(order) # scan.result
           /\ ScoreOf(FoundUnder(order)) = ScoreOf(scan.result)


\* ---------------------------------------------------------------------
\* Properties of the history of the chatbot (C30)

\* C30: after any sequence of process_message and reset_conversation calls the
\* history is a sequence of (user, assistant) pairs: its length is even and
\* its entries alternate, user first, each assistant entry being the response
\* to the message before it, also when the handling of a message fails
\* part-way.  The code violates it: process_message appends the message of the
\* user before the handler of the mode runs, and a handler that raises leaves
\* that entry without its response.
C30_HistoryIsPairs ==
    /\ Len(history) % 2 = 0
    /\ \A i \in 1..Len(history) :
           history[i].role = IF i % 2 = 1 THEN "user" ELSE "assistant"
    /\ reply.mode # "none" /\ history # <<>> =>
           /\ history[Len(history)].content = reply.response
           /\ history[Len(history) - 1].content = message

\* a call of process_message that raised: the history ends with the message
\* of the user, without a response
C30_UnpairedUserMessage ==
    /\ reply.error # "none"
    /\ Len(history) % 2 = 1
    /\ history[Len(history)] = [role |-> "user", content |-> message]

=============================================================================
